---- MODULE Spec2Model ----
(***************************************************************************)
(* Roadmap progress tracking of SkillSync-AI: the roadmap documents kept   *)
(* in the Firestore collection (roadmapservice), the roadmap detail view   *)
(* with its checklist (RoadmapDetail), and the wizard's save of a          *)
(* generated roadmap (App.handleSaveRoadmap).                               *)
(*                                                                         *)
(* JavaScript values are represented as follows.                           *)
(*   - undefined / an absent field is the string UNDEF;                     *)
(*   - a boolean field that may be absent is "true" / "false" / UNDEF;      *)
(*   - an id is a 4-tuple <<prefix, a, b, c>>.  The ids made by            *)
(*     `obj-${Date.now()}-${Math.random()}` are <<"obj", fetch, i, j>>:    *)
(*     fetch numbers the fetchRoadmap run, i the phase and j the item, so  *)
(*     two synthesized ids are never equal;                                *)
(*   - a checklist entry is a record; isString says it is a bare string.   *)
(***************************************************************************)
EXTENDS Integers, Sequences, FiniteSets, TLC

\* ------------------------------------------------------------------ bounds
MaxPhases == 1
MaxItems == 2
MaxToggles == 2
MaxMounts == 1

UNDEF == "undefined"
NoId == <<UNDEF, 0, 0, 0>>
\* a title or tool name is <<text, n>>; `Phase ${n}` is <<"Phase", n>>
NoName == <<UNDEF, 0>>

\* ------------------------------------------------------- JavaScript values
\* JavaScript truthiness of a completed field, and the ! operator on it
Truthy(c) == c = "true"
JsNot(c) == IF Truthy(c) THEN "false" ELSE "true"

\* a variant that truncates instead of rounding
MathRoundPct_Floor(completed, total) == (100 * completed) \div total

\* Math.round((completed / total) * 100) for total > 0: round half up
MathRoundPct(completed, total) == (200 * completed + total) \div (2 * total)

\* --------------------------------------------- generate service (external)
\* The shapes the generation endpoint returns, as the roadmap display
\* components consume them: learning objectives are bare strings; a
\* milestone is a bare string or an object {name, tasks} without id and
\* without completed; a phase carries an id or none.
GenString(t) == [isString |-> TRUE, id |-> NoId, text |-> t, completed |-> UNDEF, name |-> UNDEF]
GenMilestoneObject(n) == [isString |-> FALSE, id |-> NoId, text |-> UNDEF, completed |-> UNDEF, name |-> n]

GenObjectives(nObj) == [j \in 1..nObj |-> GenString("objective")]
GenMilestones(nMs, msKind) ==
    [j \in 1..nMs |-> IF msKind = "string" THEN GenString("milestone")
                                            ELSE GenMilestoneObject("milestone")]

GenPhase(i, pidKind, nObj, nMs, msKind) ==
    [id |-> IF pidKind = "distinct" THEN <<"gen", i, 0, 0>> ELSE NoId,
     phase_number |-> i,
     title |-> <<"title", 0>>,
     duration_weeks |-> 2,
     learning_objectives |-> GenObjectives(nObj),
     milestones |-> GenMilestones(nMs, msKind),
     expanded |-> UNDEF]

GenResource(i, named, nObj, nMs, msKind) ==
    [toolName |-> IF named THEN <<"tool", 0>> ELSE NoName,
     phase_number |-> IF named THEN i ELSE 0,
     duration_weeks |-> IF named THEN 2 ELSE 0,
     learning_objectives |-> GenObjectives(nObj),
     milestones |-> GenMilestones(nMs, msKind)]

ItemKinds == {"string", "object"}

\* response.roadmap of generateRoadmap: phases present, or absent with a
\* learning_resources list instead (whose first entry carries toolName,
\* phase_number and duration_weeks, the later ones do not)
GenRoadmaps ==
    { [hasPhases |-> TRUE,
       phases |-> [i \in 1..n |-> GenPhase(i, pk, m, m, mk)],
       learning_resources |-> <<>>] :
         n \in 0..MaxPhases, pk \in {"none", "distinct"},
         m \in 0..MaxItems, mk \in ItemKinds }
    \cup
    { [hasPhases |-> FALSE,
       phases |-> <<>>,
       learning_resources |-> [i \in 1..n |-> GenResource(i, i = 1, m, m, mk)]] :
         n \in 1..MaxPhases, m \in 0..MaxItems, mk \in ItemKinds }

\* ------------------------------------------------ wizard: saving a roadmap
Null == <<>>
Some(x) == <<x>>
Val(o) == o[1]

UserId == "u1"
RoadmapId == "r1"

\* App.handleSaveRoadmap: learningResources extracted from the generated
\* phases when they are an array, else the generated learning_resources
ExtractLearningResources(g) ==
    IF g.hasPhases
    THEN [i \in 1..Len(g.phases) |->
            [toolName |-> g.phases[i].title,
             phase_number |-> g.phases[i].phase_number,
             duration_weeks |-> g.phases[i].duration_weeks,
             learning_objectives |-> g.phases[i].learning_objectives,
             milestones |-> g.phases[i].milestones]]
    ELSE g.learning_resources

\* App.handleSaveRoadmap: the roadmapToSave literal (the fields the detail
\* view and the store operations read)
RoadmapToSaveProgress == 0

roadmapToSave(g) ==
    [learningResources |-> ExtractLearningResources(g),
     phases |-> IF g.hasPhases THEN g.phases ELSE <<>>,
     progress |-> RoadmapToSaveProgress]

\* a Firestore Timestamp; the server's clock is the last one it assigned
Timestamp(s, n) == [seconds |-> s, nanoseconds |-> n]
NextSecond(t) == Timestamp(t.seconds + 1, 0)
SameSecond(t) == Timestamp(t.seconds, t.nanoseconds + 1)

\* object spread `{...a, ...b}`: the fields of both, those of b winning
Merge(a, b) ==
    [x \in DOMAIN a \cup DOMAIN b |-> IF x \in DOMAIN b THEN b[x] ELSE a[x]]

\* roadmapservice.saveRoadmap: the document written by addDoc; now is the
\* value the server puts for serverTimestamp()
saveRoadmap(userId, roadmapData, now) ==
    Merge(Merge([userId |-> userId], roadmapData),
          [createdAt |-> now, updatedAt |-> now, status |-> "active"])

\* a variant of updateRoadmapProgress that stores the progress number but
\* not the phases array
updateRoadmapProgress_ProgressOnly(doc, progressData, now) ==
    Merge(doc, [progress |-> progressData.progress, updatedAt |-> now])

\* roadmapservice.updateRoadmapProgress: updateDoc merges the given fields
updateRoadmapProgress(doc, progressData, now) ==
    Merge(doc, Merge(progressData, [updatedAt |-> now]))

\* a variant of updateRoadmapStatus that stamps createdAt as well
updateRoadmapStatus_TouchCreated(doc, status, now) ==
    Merge(doc, [status |-> status, updatedAt |-> now, createdAt |-> now])

\* roadmapservice.updateRoadmapStatus: updateDoc merges status
updateRoadmapStatus(doc, status, now) ==
    Merge(doc, [status |-> status, updatedAt |-> now])

Statuses == {"active", "completed", "archived"}
\* the status the user picks in the list's select
StatusChoices == {"completed"}

\* ------------------------------------------- detail view: pure functions
\* `x.f || []`: the field when the object has it, else the empty array
OrEmpty(x, f) == IF f \in DOMAIN x THEN x[f] ELSE <<>>

\* `x.f && x.f.length > 0`: the object has the array f and it is not empty
NonEmpty(x, f) == f \in DOMAIN x /\ Len(x[f]) > 0

\* a variant of SynthesizePhases that expands every phase
SynthesizePhases_AllExpanded(learningResources) ==
    [idx \in 1..Len(learningResources) |->
        LET resource == learningResources[idx] IN
        [id |-> <<"phase", idx, 0, 0>>,
         phase_number |-> IF resource.phase_number # 0 THEN resource.phase_number ELSE idx,
         title |-> IF resource.toolName # NoName THEN resource.toolName ELSE <<"Phase", idx>>,
         duration_weeks |-> IF resource.duration_weeks # 0 THEN resource.duration_weeks ELSE 4,
         learning_objectives |-> OrEmpty(resource, "learning_objectives"),
         milestones |-> OrEmpty(resource, "milestones"),
         expanded |-> "true"]]

\* fetchRoadmap, lines 35-49: phases synthesized from learningResources
SynthesizePhases(learningResources) ==
    [idx \in 1..Len(learningResources) |->
        LET resource == learningResources[idx] IN
        [id |-> <<"phase", idx, 0, 0>>,
         phase_number |-> IF resource.phase_number # 0 THEN resource.phase_number ELSE idx,
         title |-> IF resource.toolName # NoName THEN resource.toolName ELSE <<"Phase", idx>>,
         duration_weeks |-> IF resource.duration_weeks # 0 THEN resource.duration_weeks ELSE 4,
         learning_objectives |-> OrEmpty(resource, "learning_objectives"),
         milestones |-> OrEmpty(resource, "milestones"),
         expanded |-> IF idx = 1 THEN "true" ELSE "false"]]

\* a variant of WrapItem that wraps whatever it is given
WrapItem_Always(prefix, fetchNo, i, j, item) ==
    [isString |-> FALSE, id |-> <<prefix, fetchNo, i, j>>, text |-> item.text,
     completed |-> "false", name |-> UNDEF]

\* fetchRoadmap, lines 54-63: a bare string is wrapped, an object passes
WrapItem(prefix, fetchNo, i, j, item) ==
    IF item.isString
    THEN [isString |-> FALSE, id |-> <<prefix, fetchNo, i, j>>, text |-> item.text,
          completed |-> "false", name |-> UNDEF]
    ELSE item

\* fetchRoadmap, lines 35-37: phases are synthesized when the document has
\* no phases (absent or empty) and a non-empty learningResources
SynthesizesPhases(doc) == ~NonEmpty(doc, "phases") /\ NonEmpty(doc, "learningResources")

\* fetchRoadmap, line 52: `roadmapData.phases.map` with phases undefined is
\* a TypeError; fetchRoadmap has no try / catch
fetchRoadmapRaises(doc) == ~SynthesizesPhases(doc) /\ "phases" \notin DOMAIN doc

\* fetchRoadmap, lines 33-66: the roadmap put in the view's state (the
\* document with its id, and its phases replaced)
NormalizeRoadmap(doc, fetchNo) ==
    LET phases0 == IF SynthesizesPhases(doc)
                   THEN SynthesizePhases(doc.learningResources)
                   ELSE OrEmpty(doc, "phases")
        phases1 == [i \in 1..Len(phases0) |->
                     Merge(phases0[i],
                       [learning_objectives |->
                            [j \in 1..Len(OrEmpty(phases0[i], "learning_objectives")) |->
                                WrapItem("obj", fetchNo, i, j, phases0[i].learning_objectives[j])],
                        milestones |->
                            [j \in 1..Len(OrEmpty(phases0[i], "milestones")) |->
                                WrapItem("ms", fetchNo, i, j, phases0[i].milestones[j])]])]
    IN  Merge(Merge([id |-> RoadmapId], doc), [phases |-> phases1])

\* the forEach over one list: totalItems++ ; if (item.completed) completedItems++
RECURSIVE CountItems(_, _)
CountItems(items, onlyCompleted) ==
    IF items = <<>> THEN 0
    ELSE (IF onlyCompleted => Truthy(Head(items).completed) THEN 1 ELSE 0)
         + CountItems(Tail(items), onlyCompleted)

\* the forEach over phases of calculateProgress (lines 80-89)
RECURSIVE DisplayCount(_, _)
DisplayCount(phases, onlyCompleted) ==
    IF phases = <<>> THEN 0
    ELSE CountItems(OrEmpty(Head(phases), "learning_objectives"), onlyCompleted)
         + CountItems(OrEmpty(Head(phases), "milestones"), onlyCompleted)
         + DisplayCount(Tail(phases), onlyCompleted)

\* the forEach over phases of calculateProgressFromRoadmap (lines 183-192)
RECURSIVE SavedCount(_, _)
SavedCount(phases, onlyCompleted) ==
    IF phases = <<>> THEN 0
    ELSE CountItems(OrEmpty(Head(phases), "learning_objectives"), onlyCompleted)
         + CountItems(OrEmpty(Head(phases), "milestones"), onlyCompleted)
         + SavedCount(Tail(phases), onlyCompleted)

\* a variant of calculateProgress that counts the objectives only
calculateProgress_ObjectivesOnly(r) ==
    IF r = Null \/ "phases" \notin DOMAIN Val(r) THEN 0
    ELSE LET objectives == [i \in 1..Len(Val(r).phases) |->
                              [learning_objectives |->
                                  OrEmpty(Val(r).phases[i], "learning_objectives")]]
             totalItems == DisplayCount(objectives, FALSE)
             completedItems == DisplayCount(objectives, TRUE)
         IN  IF totalItems > 0 THEN MathRoundPct(completedItems, totalItems) ELSE 0

\* RoadmapDetail.calculateProgress (the displayed value); r is the roadmap
\* state: Null, or Some(roadmap)
calculateProgress(r) ==
    IF r = Null \/ "phases" \notin DOMAIN Val(r) THEN 0
    ELSE LET totalItems == DisplayCount(Val(r).phases, FALSE)
             completedItems == DisplayCount(Val(r).phases, TRUE)
         IN  IF totalItems > 0 THEN MathRoundPct(completedItems, totalItems) ELSE 0

\* a variant of calculateProgressFromRoadmap that divides by the number of
\* completed-or-not objectives only (milestones counted as completed work
\* but not as items)
calculateProgressFromRoadmap_ObjectivesOnly(roadmapData) ==
    LET objectives == [i \in 1..Len(OrEmpty(roadmapData, "phases")) |->
                          [learning_objectives |->
                              OrEmpty(roadmapData.phases[i], "learning_objectives")]]
        totalItems == SavedCount(objectives, FALSE)
        completedItems == SavedCount(objectives, TRUE)
    IN  IF totalItems > 0 THEN MathRoundPct(completedItems, totalItems) ELSE 0

\* RoadmapDetail.calculateProgressFromRoadmap (the value written back)
calculateProgressFromRoadmap(roadmapData) ==
    LET totalItems == SavedCount(OrEmpty(roadmapData, "phases"), FALSE)
        completedItems == SavedCount(OrEmpty(roadmapData, "phases"), TRUE)
    IN  IF totalItems > 0 THEN MathRoundPct(completedItems, totalItems) ELSE 0

\* a variant of toggleObjective that looks for the objective in every phase
toggleObjective_AnyPhase(roadmap, phaseId, objectiveId) ==
    [roadmap EXCEPT !.phases =
        [i \in 1..Len(@) |->
            [@[i] EXCEPT !.learning_objectives =
                [j \in 1..Len(@) |->
                    IF @[j].id = objectiveId
                    THEN [@[j] EXCEPT !.completed = JsNot(@)]
                    ELSE @[j]]]]]

\* a variant of toggleObjective that sets the flag instead of flipping it
toggleObjective_SetTrue(roadmap, phaseId, objectiveId) ==
    [roadmap EXCEPT !.phases =
        [i \in 1..Len(@) |->
            IF @[i].id = phaseId
            THEN [@[i] EXCEPT !.learning_objectives =
                    [j \in 1..Len(@) |->
                        IF @[j].id = objectiveId
                        THEN [@[j] EXCEPT !.completed = "true"]
                        ELSE @[j]]]
            ELSE @[i]]]

\* RoadmapDetail.toggleObjective: the updatedRoadmap value
toggleObjective(roadmap, phaseId, objectiveId) ==
    [roadmap EXCEPT !.phases =
        [i \in 1..Len(@) |->
            IF @[i].id = phaseId
            THEN [@[i] EXCEPT !.learning_objectives =
                    [j \in 1..Len(@) |->
                        IF @[j].id = objectiveId
                        THEN [@[j] EXCEPT !.completed = JsNot(@)]
                        ELSE @[j]]]
            ELSE @[i]]]

\* a variant of toggleMilestone that sets the flag instead of flipping it
toggleMilestone_SetTrue(roadmap, phaseId, milestoneId) ==
    [roadmap EXCEPT !.phases =
        [i \in 1..Len(@) |->
            IF @[i].id = phaseId
            THEN [@[i] EXCEPT !.milestones =
                    [j \in 1..Len(@) |->
                        IF @[j].id = milestoneId
                        THEN [@[j] EXCEPT !.completed = "true"]
                        ELSE @[j]]]
            ELSE @[i]]]

\* RoadmapDetail.toggleMilestone: the updatedRoadmap value
toggleMilestone(roadmap, phaseId, milestoneId) ==
    [roadmap EXCEPT !.phases =
        [i \in 1..Len(@) |->
            IF @[i].id = phaseId
            THEN [@[i] EXCEPT !.milestones =
                    [j \in 1..Len(@) |->
                        IF @[j].id = milestoneId
                        THEN [@[j] EXCEPT !.completed = JsNot(@)]
                        ELSE @[j]]]
            ELSE @[i]]]

\* RoadmapDetail.togglePhaseExpansion: the new roadmap value
togglePhaseExpansion(prev, phaseId) ==
    [prev EXCEPT !.phases =
        [i \in 1..Len(@) |->
            IF @[i].id = phaseId
            THEN [@[i] EXCEPT !.expanded = JsNot(@)]
            ELSE @[i]]]

\* a variant of saveProgress whose progress leaves the milestones out
progressData_ObjectivesOnly(updatedRoadmap) ==
    [phases |-> updatedRoadmap.phases,
     progress |-> calculateProgressFromRoadmap(
                    [updatedRoadmap EXCEPT !.phases =
                        [i \in 1..Len(@) |-> [@[i] EXCEPT !.milestones = <<>>]]])]

\* RoadmapDetail.saveProgress: the progressData literal
progressData(updatedRoadmap) ==
    [phases |-> updatedRoadmap.phases,
     progress |-> calculateProgressFromRoadmap(updatedRoadmap)]

\* ------------------------------------- flat-tool detail view: pure part
\* handleToggleComplete, lines 116-123: the Set with toolName added or
\* removed, in insertion order (a Set iterates in insertion order)
ToggleInSet(completedItems, toolName) ==
    IF \E k \in 1..Len(completedItems) : completedItems[k] = toolName
    THEN SelectSeq(completedItems, LAMBDA x : x # toolName)
    ELSE Append(completedItems, toolName)

\* handleToggleComplete, lines 124-133: the object given to
\* updateRoadmapProgress.  0/0 is NaN in the source; no checkbox exists
\* when selectedTools is empty, so the handler never runs with a zero
\* divisor and the model gives UNDEF there.
handleToggleCompleteData(completedItems, selectedTools, toolName) ==
    LET completedArray == ToggleInSet(completedItems, toolName) IN
    [completedTools |-> completedArray,
     progress |-> IF Len(selectedTools) > 0
                  THEN MathRoundPct(Len(completedArray), Len(selectedTools))
                  ELSE -1,
     currentTool |-> IF Len(completedArray) < Len(selectedTools)
                     THEN selectedTools[Len(completedArray) + 1].name
                     ELSE "null"]

\* ------------------------------------------- inputs of the pure functions
CalcMaxPhases == 2
CalcMaxObjectives == 2
CalcMaxMilestones == 1
CalcMaxTools == 2

CalcItem(prefix, j, done) ==
    [isString |-> FALSE, id |-> <<prefix, 0, 0, j>>, text |-> "item",
     completed |-> IF done THEN "true" ELSE "false", name |-> UNDEF]

\* a phase with no objectives and nm milestones; with nm = -1 the phase has
\* no milestones field at all
CalcPhase(no, nm, doneObj, doneMs) ==
    LET base == [id |-> NoId, phase_number |-> 0, title |-> <<"title", 0>>,
                 duration_weeks |-> 2, expanded |-> UNDEF,
                 learning_objectives |-> [j \in 1..no |-> CalcItem("obj", j, j \in doneObj)]]
    IN  IF nm < 0 THEN base
        ELSE [x \in DOMAIN base \cup {"milestones"} |->
                IF x = "milestones" THEN [j \in 1..nm |-> CalcItem("ms", j, j \in doneMs)]
                ELSE base[x]]

CalcPhases ==
    { CalcPhase(no, nm, dObj, dMs) :
        no \in 0..CalcMaxObjectives, nm \in -1..CalcMaxMilestones,
        dObj \in SUBSET (1..CalcMaxObjectives), dMs \in SUBSET (1..CalcMaxMilestones) }

CalcTools(n) == [k \in 1..n |-> [name |-> IF k = 2 THEN "t2" ELSE "t1"]]

RECURSIVE SeqsUpTo(_, _)
SeqsUpTo(S, n) ==
    IF n = 0 THEN {<<>>}
    ELSE LET shorter == SeqsUpTo(S, n - 1)
         IN  shorter \cup { Append(q, x) : q \in shorter, x \in S }

\* roadmap values: with a phases array, or without the phases field
CalcRoadmaps ==
    { [id |-> RoadmapId, phases |-> ps, selectedTools |-> CalcTools(n)] :
        ps \in SeqsUpTo(CalcPhases, CalcMaxPhases), n \in 0..CalcMaxTools }
    \cup
    { [id |-> RoadmapId, selectedTools |-> CalcTools(n)] : n \in 0..CalcMaxTools }

\* ------------------------------------------------------------------ state
VARIABLES
    wizardRoadmap,     \* App: roadmap (Null before a generation response)
    currentRoadmapId,  \* App: currentRoadmapId ("null" or the saved id)
    appError,          \* App: error
    view,              \* App: view
    store,             \* the roadmaps collection: Null, or Some(document)
    clock,             \* the store server's time: the last Timestamp it assigned
    mountNo,           \* number of RoadmapDetail instances mounted so far
    fetchPending,      \* getRoadmapById of the mounted instance is in flight
    roadmap,           \* RoadmapDetail: roadmap
    loading,           \* RoadmapDetail: loading
    saving,            \* RoadmapDetail: saving
    error,             \* RoadmapDetail: error
    lastSaved,         \* RoadmapDetail: lastSaved ("null", or "date" once set)
    errorTimers,       \* pending setTimeout(() => setError(null), 3000)
    writes,            \* updateRoadmapProgress calls, in the order issued
    applyLog,          \* indices of writes, in the order the store applied them
    calcRoadmap,       \* progress functions: the roadmap value they are applied to
    calcShown,         \* result of calculateProgress, Null before the call
    calcSaved,         \* result of calculateProgressFromRoadmap, Null before the call
    flatCompleted,     \* flat-tool view: completedItems, in insertion order
    flatProgress,      \* flat-tool view: progress of the last toggle, Null before
    toggleCall,        \* the last call of toggleObjective / toggleMilestone by id
    step,              \* App: step (1..4)
    resumeData,        \* App: resumeData ("null" or the resume text)
    profile,           \* App: profile ("null" or the analysed profile)
    selectedTools,     \* App: selectedTools, a sequence of tool ids
    preferences,       \* App: preferences ("empty" for {}, or the submitted ones)
    generatingRoadmap, \* App: generatingRoadmap; true while generateRoadmap is in flight
    uploadProfile,     \* ResumeUpload: profile ("null" until the analysis succeeded)
    selection,         \* InterestSelector: selectedTools
    collection,        \* the roadmaps collection by document id (a function)
    listMounted,       \* a RoadmapList instance is mounted
    listRoadmaps,      \* RoadmapList: roadmaps
    listLoading,       \* RoadmapList: loading
    pendingOps,        \* store calls of RoadmapList in flight
    lastConfirm,       \* the last window.confirm of handleDelete and its answer
    lastSave,          \* the last saveRoadmap call: its result
    lastQuery,         \* the last getUserRoadmaps call: query outcomes and success
    normAgain,         \* fetchRoadmap's normalization applied to the view's roadmap
    flatDoc,           \* the flat-tool roadmap document in the store
    flatMounted,       \* a flat-tool RoadmapDetail instance is mounted
    flatMount,         \* the number of flat-tool RoadmapDetail instances mounted so far
    flatFetching,      \* its getRoadmapById call is in flight
    flatRoadmap,       \* flat-tool RoadmapDetail: roadmap
    flatLoading,       \* flat-tool RoadmapDetail: loading
    flatItems,         \* flat-tool RoadmapDetail: completedItems, in insertion order
    flatUpdating,      \* flat-tool RoadmapDetail: updating
    flatError,         \* flat-tool RoadmapDetail: error
    flatWrites,        \* the updateRoadmapProgress calls of the flat-tool view
    user,              \* App: user ("null" when signed out)
    signOutCalls,      \* the signOut calls of handleLogout, in flight or done
    logoutConfirm,     \* the last window.confirm of handleLogout: its answer
    genInFlight,       \* the number of generateRoadmap requests in flight
    genCount,          \* the number of generateRoadmap requests issued so far
    roadmapGen,        \* which request produced App's roadmap (0: no roadmap)
    savedGen,          \* which roadmap was saved under currentRoadmapId (0: none)
    savingRoadmap,     \* App: savingRoadmap
    saveCalls          \* the saveRoadmap calls of handleSaveRoadmap

appVars == <<wizardRoadmap, currentRoadmapId, appError, view>>
detailVars == <<mountNo, fetchPending, roadmap, loading, saving, error, lastSaved, errorTimers>>
netVars == <<writes, applyLog>>
calcVars == <<calcRoadmap, calcShown, calcSaved, flatCompleted, flatProgress>>
callVars == <<toggleCall>>
normVars == <<normAgain>>
flatVars == <<flatDoc, flatMounted, flatMount, flatFetching, flatRoadmap, flatLoading,
             flatItems, flatUpdating, flatError, flatWrites>>
\* the state outside the detail view, the App and the store
authVars == <<user, signOutCalls, logoutConfirm>>
genVars == <<genInFlight, genCount, roadmapGen>>
saveVars == <<savedGen, savingRoadmap, saveCalls>>
wizVars == <<step, resumeData, profile, selectedTools, preferences, generatingRoadmap,
            uploadProfile, selection, authVars, genVars, saveVars>>
listVars == <<collection, listMounted, listRoadmaps, listLoading, pendingOps, lastConfirm,
              lastSave, lastQuery>>
notDetailVars == <<calcVars, callVars, wizVars, listVars, normVars, flatVars>>
\* the state outside the progress functions' arguments and results
notCalcVars == <<store, clock, appVars, detailVars, netVars, callVars, wizVars, listVars, normVars, flatVars>>
\* the state outside the collection and the list view
notListVars == <<store, appVars, detailVars, netVars, calcVars, callVars, wizVars, normVars, flatVars>>
vars == <<wizardRoadmap, currentRoadmapId, appError, view, store, clock, mountNo, fetchPending,
          roadmap, loading, saving, error, lastSaved, errorTimers, writes, applyLog,
          calcRoadmap, calcShown, calcSaved, flatCompleted, flatProgress, toggleCall,
          step, resumeData, profile, selectedTools, preferences, generatingRoadmap,
          uploadProfile, selection,
          collection, listMounted, listRoadmaps, listLoading, pendingOps, lastConfirm,
          lastSave, lastQuery, normAgain,
          flatDoc, flatMounted, flatMount, flatFetching, flatRoadmap, flatLoading,
          flatItems, flatUpdating, flatError, flatWrites,
          user, signOutCalls, logoutConfirm, genInFlight, genCount, roadmapGen, savedGen,
          savingRoadmap, saveCalls>>

CalcIdle ==
    /\ calcRoadmap = Null
    /\ calcShown = Null
    /\ calcSaved = Null
    /\ flatCompleted = <<>>
    /\ flatProgress = Null

CallIdle == toggleCall = Null
NormIdle == normAgain = Null

\* no flat-tool document and no flat-tool view
FlatIdle ==
    /\ flatDoc = Null
    /\ flatMounted = FALSE
    /\ flatMount = 0
    /\ flatFetching = FALSE
    /\ flatRoadmap = Null
    /\ flatLoading = TRUE
    /\ flatItems = <<>>
    /\ flatUpdating = FALSE
    /\ flatError = "null"
    /\ flatWrites = <<>>

\* an empty collection, and no list view mounted
ListIdle ==
    /\ collection = <<>>
    /\ listMounted = FALSE
    /\ listRoadmaps = <<>>
    /\ listLoading = TRUE
    /\ pendingOps = {}
    /\ lastConfirm = Null
    /\ lastSave = Null
    /\ lastQuery = Null

\* App's useState defaults of the wizard, and no step component mounted yet
WizardInit ==
    /\ step = 1
    /\ resumeData = "null"
    /\ profile = "null"
    /\ selectedTools = <<>>
    /\ preferences = "empty"
    /\ generatingRoadmap = FALSE
    /\ uploadProfile = "null"
    /\ selection = <<>>
    /\ user = UserId
    /\ signOutCalls = <<>>
    /\ logoutConfirm = Null
    /\ genInFlight = 0
    /\ genCount = 0
    /\ roadmapGen = 0
    /\ savedGen = 0
    /\ savingRoadmap = FALSE
    /\ saveCalls = <<>>

AppInit ==
    /\ wizardRoadmap = Null
    /\ currentRoadmapId = "null"
    /\ appError = "null"
    /\ view = "generator"
    /\ store = Null
    /\ clock = Timestamp(0, 0)
    /\ mountNo = 0
    /\ fetchPending = FALSE
    /\ roadmap = Null
    /\ loading = TRUE
    /\ saving = FALSE
    /\ error = "null"
    /\ lastSaved = "null"
    /\ errorTimers = 0
    /\ writes = <<>>
    /\ applyLog = <<>>

Init == AppInit /\ WizardInit /\ ListIdle /\ CalcIdle /\ CallIdle /\ NormIdle /\ FlatIdle

\* ------------------------------------------------------------ App actions
\* App.handlePreferencesSet, the success branch of the generation response
GenerateRoadmapResponse(g) ==
    /\ view = "generator"
    /\ wizardRoadmap = Null
    /\ wizardRoadmap' = Some(g)
    /\ appError' = "null"
    /\ UNCHANGED <<currentRoadmapId, view, store>>
    /\ UNCHANGED detailVars
    /\ UNCHANGED netVars
    /\ UNCHANGED clock
    /\ UNCHANGED notDetailVars

\* App.handleSaveRoadmap with a logged-in user; the Save button is disabled
\* once currentRoadmapId is set.  ok: whether addDoc succeeded.
HandleSaveRoadmap(ok) ==
    /\ view = "generator"
    /\ wizardRoadmap # Null
    /\ currentRoadmapId = "null"
    /\ IF ok
       THEN /\ clock' = NextSecond(clock)
            /\ store' = Some(saveRoadmap(UserId, roadmapToSave(Val(wizardRoadmap)), clock'))
            /\ currentRoadmapId' = RoadmapId
            /\ appError' = "null"
       ELSE /\ appError' = "Failed to save roadmap"
            /\ UNCHANGED <<store, clock, currentRoadmapId>>
    /\ UNCHANGED <<wizardRoadmap, view>>
    /\ UNCHANGED detailVars
    /\ UNCHANGED netVars
    /\ UNCHANGED notDetailVars

\* App.handleViewMyRoadmaps
HandleViewMyRoadmaps ==
    /\ view = "generator"
    /\ view' = "list"
    /\ UNCHANGED <<wizardRoadmap, currentRoadmapId, appError, store>>
    /\ UNCHANGED detailVars
    /\ UNCHANGED netVars
    /\ UNCHANGED clock
    /\ UNCHANGED notDetailVars

\* App.handleViewRoadmapDetail: a RoadmapDetail instance is mounted with
\* its initial state and its effect calls fetchRoadmap
HandleViewRoadmapDetail ==
    /\ view = "list"
    /\ store # Null
    /\ mountNo < MaxMounts
    /\ view' = "detail"
    /\ mountNo' = mountNo + 1
    /\ fetchPending' = TRUE
    /\ roadmap' = Null
    /\ loading' = TRUE
    /\ saving' = FALSE
    /\ error' = "null"
    /\ lastSaved' = "null"
    /\ errorTimers' = 0
    /\ UNCHANGED <<wizardRoadmap, currentRoadmapId, appError, store>>
    /\ UNCHANGED netVars
    /\ UNCHANGED clock
    /\ UNCHANGED notDetailVars

\* App.handleBackToList: the RoadmapDetail instance is unmounted
HandleBackToList ==
    /\ view = "detail"
    /\ view' = "list"
    /\ fetchPending' = FALSE
    /\ errorTimers' = 0
    /\ UNCHANGED <<wizardRoadmap, currentRoadmapId, appError, store>>
    /\ UNCHANGED <<mountNo, roadmap, loading, saving, error, lastSaved>>
    /\ UNCHANGED netVars
    /\ UNCHANGED clock
    /\ UNCHANGED notDetailVars

\* RoadmapList.handleStatusChange -> roadmapservice.updateRoadmapStatus; the
\* select's onChange fires when the option picked is not the one shown
HandleStatusChange(status, ok) ==
    /\ view = "list"
    /\ store # Null
    /\ status # Val(store).status
    /\ IF ok
       THEN /\ clock' = NextSecond(clock)
            /\ store' = Some(updateRoadmapStatus(Val(store), status, clock'))
       ELSE UNCHANGED <<store, clock>>
    /\ UNCHANGED appVars
    /\ UNCHANGED detailVars
    /\ UNCHANGED netVars
    /\ UNCHANGED notDetailVars

\* ------------------------------------------------- RoadmapDetail actions
Mounted == view = "detail"

\* RoadmapDetail.fetchRoadmap after `await getRoadmapById`; ok: whether the
\* read succeeded
FetchRoadmapResponse(ok) ==
    /\ Mounted
    /\ fetchPending
    /\ fetchPending' = FALSE
    /\ IF ok /\ store # Null
       THEN IF fetchRoadmapRaises(Val(store))
            THEN UNCHANGED <<roadmap, error, loading>>
            ELSE /\ roadmap' = Some(NormalizeRoadmap(Val(store), mountNo))
                 /\ error' = "null"
                 /\ loading' = FALSE
       ELSE /\ error' = "Failed to load roadmap"
            /\ loading' = FALSE
            /\ UNCHANGED roadmap
    /\ UNCHANGED <<mountNo, saving, lastSaved, errorTimers, store>>
    /\ UNCHANGED appVars
    /\ UNCHANGED netVars
    /\ UNCHANGED clock
    /\ UNCHANGED notDetailVars

\* the checklist of phase i is rendered (and can be clicked) when the view
\* shows a roadmap and the phase is expanded
Rendered(i) ==
    /\ Mounted
    /\ ~loading
    /\ roadmap # Null
    /\ i \in 1..Len(Val(roadmap).phases)

Clickable(i) == Rendered(i) /\ Truthy(Val(roadmap).phases[i].expanded)

\* a call of updateRoadmapProgress issued by saveProgress
WriteRecord(before, updated, kind, i, j) ==
    [mount |-> mountNo,
     payload |-> progressData(updated),
     status |-> "inflight",
     kind |-> kind,
     pos |-> <<i, j>>,
     pre |-> before.phases,
     overlap |-> \E k \in 1..Len(writes) : writes[k].status = "inflight"]

\* RoadmapDetail.toggleObjective up to the await inside saveProgress: the
\* checkbox of objective j of phase i is clicked
ToggleObjective(i, j) ==
    /\ Clickable(i)
    /\ j \in 1..Len(Val(roadmap).phases[i].learning_objectives)
    /\ Len(writes) < MaxToggles
    /\ LET rm == Val(roadmap)
           updatedRoadmap == toggleObjective(rm, rm.phases[i].id,
                                              rm.phases[i].learning_objectives[j].id)
       IN  /\ roadmap' = Some(updatedRoadmap)
           /\ writes' = Append(writes, WriteRecord(rm, updatedRoadmap, "objective", i, j))
    /\ saving' = TRUE
    /\ UNCHANGED <<mountNo, fetchPending, loading, error, lastSaved, errorTimers>>
    /\ UNCHANGED <<store, applyLog>>
    /\ UNCHANGED appVars
    /\ UNCHANGED clock
    /\ UNCHANGED notDetailVars

\* RoadmapDetail.toggleMilestone up to the await inside saveProgress
ToggleMilestone(i, j) ==
    /\ Clickable(i)
    /\ j \in 1..Len(Val(roadmap).phases[i].milestones)
    /\ Len(writes) < MaxToggles
    /\ LET rm == Val(roadmap)
           updatedRoadmap == toggleMilestone(rm, rm.phases[i].id,
                                              rm.phases[i].milestones[j].id)
       IN  /\ roadmap' = Some(updatedRoadmap)
           /\ writes' = Append(writes, WriteRecord(rm, updatedRoadmap, "milestone", i, j))
    /\ saving' = TRUE
    /\ UNCHANGED <<mountNo, fetchPending, loading, error, lastSaved, errorTimers>>
    /\ UNCHANGED <<store, applyLog>>
    /\ UNCHANGED appVars
    /\ UNCHANGED clock
    /\ UNCHANGED notDetailVars

\* RoadmapDetail.togglePhaseExpansion: the header of phase i is clicked
TogglePhaseExpansion(i) ==
    /\ Rendered(i)
    /\ roadmap' = Some(togglePhaseExpansion(Val(roadmap), Val(roadmap).phases[i].id))
    /\ UNCHANGED <<mountNo, fetchPending, loading, saving, error, lastSaved, errorTimers>>
    /\ UNCHANGED store
    /\ UNCHANGED appVars
    /\ UNCHANGED netVars
    /\ UNCHANGED clock
    /\ UNCHANGED notDetailVars

\* the instance that issued write k is still the mounted one
Live(k) == Mounted /\ writes[k].mount = mountNo

\* a variant of saveProgress that rolls the optimistic change back
RoadmapAfterFailedSave_Revert(k) == Some([Val(roadmap) EXCEPT !.phases = writes[k].pre])

\* the roadmap state after a failed write: saveProgress leaves it alone
RoadmapAfterFailedSave(k) == roadmap

\* `await updateRoadmapProgress` of write k settles and saveProgress runs to
\* its end.  ok: the updateDoc succeeded and the store holds its effect;
\* otherwise it threw (network, permission) and nothing was stored.  Writes
\* settle in any order.
SaveProgressResponse(k, ok) ==
    /\ k \in 1..Len(writes)
    /\ writes[k].status = "inflight"
    /\ IF ok /\ store # Null
       THEN /\ clock' = NextSecond(clock)
            /\ store' = Some(updateRoadmapProgress(Val(store), writes[k].payload, clock'))
            /\ applyLog' = Append(applyLog, k)
            /\ writes' = [writes EXCEPT ![k].status = "applied"]
            /\ IF Live(k)
               THEN /\ lastSaved' = "date"
                    /\ saving' = FALSE
               ELSE UNCHANGED <<lastSaved, saving>>
            /\ UNCHANGED <<error, errorTimers, roadmap>>
       ELSE /\ writes' = [writes EXCEPT ![k].status = "rejected"]
            /\ IF Live(k)
               THEN /\ error' = "Failed to save progress"
                    /\ errorTimers' = errorTimers + 1
                    /\ roadmap' = RoadmapAfterFailedSave(k)
                    /\ saving' = FALSE
               ELSE UNCHANGED <<error, errorTimers, roadmap, saving>>
            /\ UNCHANGED <<store, clock, applyLog, lastSaved>>
    /\ UNCHANGED <<mountNo, fetchPending, loading>>
    /\ UNCHANGED appVars
    /\ UNCHANGED notDetailVars

\* the timer set by a failed saveProgress fires: setError(null)
ErrorTimeout ==
    /\ Mounted
    /\ errorTimers > 0
    /\ errorTimers' = errorTimers - 1
    /\ error' = "null"
    /\ UNCHANGED <<mountNo, fetchPending, roadmap, loading, saving, lastSaved>>
    /\ UNCHANGED store
    /\ UNCHANGED appVars
    /\ UNCHANGED netVars
    /\ UNCHANGED clock
    /\ UNCHANGED notDetailVars

PhaseIdx == 1..MaxPhases
ItemIdx == 1..MaxItems
WriteIndices == 1..MaxToggles

Next ==
    \/ \E g \in GenRoadmaps : GenerateRoadmapResponse(g)
    \/ \E ok \in BOOLEAN : HandleSaveRoadmap(ok)
    \/ HandleViewMyRoadmaps
    \/ HandleViewRoadmapDetail
    \/ HandleBackToList
    \/ \E st \in StatusChoices, ok \in BOOLEAN : HandleStatusChange(st, ok)
    \/ \E ok \in BOOLEAN : FetchRoadmapResponse(ok)
    \/ \E i \in PhaseIdx, j \in ItemIdx : ToggleObjective(i, j)
    \/ \E i \in PhaseIdx, j \in ItemIdx : ToggleMilestone(i, j)
    \/ \E i \in PhaseIdx : TogglePhaseExpansion(i)
    \/ \E k \in WriteIndices, ok \in BOOLEAN : SaveProgressResponse(k, ok)
    \/ ErrorTimeout

Spec == Init /\ [][Next]_vars

\* ----------------------------------- the progress functions on their own
CalcInit ==
    /\ AppInit
    /\ calcRoadmap \in { Some(r) : r \in CalcRoadmaps }
    /\ calcShown = Null
    /\ calcSaved = Null
    /\ flatCompleted = <<>>
    /\ flatProgress = Null
    /\ CallIdle
    /\ WizardInit
    /\ ListIdle
    /\ NormIdle
    /\ FlatIdle

\* the render of RoadmapDetail calls calculateProgress()
CalcDisplay ==
    /\ calcShown = Null
    /\ calcShown' = Some(calculateProgress(calcRoadmap))
    /\ UNCHANGED <<calcRoadmap, calcSaved, flatCompleted, flatProgress>>
    /\ UNCHANGED notCalcVars

\* saveProgress calls calculateProgressFromRoadmap(updatedRoadmap)
CalcSave ==
    /\ calcSaved = Null
    /\ calcSaved' = Some(calculateProgressFromRoadmap(Val(calcRoadmap)))
    /\ UNCHANGED <<calcRoadmap, calcShown, flatCompleted, flatProgress>>
    /\ UNCHANGED notCalcVars

\* flat-tool view: the checkbox of tool k is clicked and the write succeeds
FlatToggleComplete(k) ==
    /\ k \in 1..Len(Val(calcRoadmap).selectedTools)
    /\ LET data == handleToggleCompleteData(flatCompleted, Val(calcRoadmap).selectedTools,
                                            Val(calcRoadmap).selectedTools[k].name)
       IN  /\ flatCompleted' = data.completedTools
           /\ flatProgress' = Some(data.progress)
    /\ UNCHANGED <<calcRoadmap, calcShown, calcSaved>>
    /\ UNCHANGED notCalcVars

CalcNext ==
    \/ CalcDisplay
    \/ CalcSave
    \/ \E k \in 1..CalcMaxTools : FlatToggleComplete(k)

SpecCalc == CalcInit /\ [][CalcNext]_vars

\* ------------------------------------------------------------ the wizard
MinSelectedTools == 2
MaxSelectedTools == 8
MaxSaves == 2
MaxGenerations == 2
MaxLogouts == 1

\* the tools offered by the recommendations, one more than can be selected
ToolCatalog == 1..(MaxSelectedTools + 1)

\* InterestSelector.toggleTool: the updater given to setSelectedTools; a
\* tool is identified by its name and domain
toggleTool(prev, tool) ==
    IF \E k \in 1..Len(prev) : prev[k] = tool
    THEN SelectSeq(prev, LAMBDA t : t # tool)
    ELSE IF Len(prev) >= MaxSelectedTools THEN prev ELSE Append(prev, tool)

\* the App state the wizard's handlers read and set
AppState ==
    [step |-> step, resumeData |-> resumeData, profile |-> profile,
     selectedTools |-> selectedTools, preferences |-> preferences,
     roadmap |-> wizardRoadmap, error |-> appError,
     currentRoadmapId |-> currentRoadmapId]

\* a variant of handleBack that leaves the error in place
handleBack_KeepError(app) ==
    IF app.step > 1 THEN [app EXCEPT !.step = @ - 1] ELSE app

\* App.handleBack
handleBack(app) ==
    IF app.step > 1 THEN [app EXCEPT !.step = @ - 1, !.error = "null"] ELSE app

\* a variant of handleStartOver that keeps the id of the saved roadmap
handleStartOver_KeepRoadmapId(app) ==
    [app EXCEPT !.step = 1, !.resumeData = "null", !.profile = "null",
                !.selectedTools = <<>>, !.preferences = "empty",
                !.roadmap = Null, !.error = "null"]

\* App.handleStartOver
handleStartOver(app) ==
    [app EXCEPT !.step = 1, !.resumeData = "null", !.profile = "null",
                !.selectedTools = <<>>, !.preferences = "empty",
                !.roadmap = Null, !.error = "null", !.currentRoadmapId = "null"]

\* the state variables take the values of an App state record
SetAppState(app) ==
    /\ step' = app.step
    /\ resumeData' = app.resumeData
    /\ profile' = app.profile
    /\ selectedTools' = app.selectedTools
    /\ preferences' = app.preferences
    /\ wizardRoadmap' = app.roadmap
    /\ appError' = app.error
    /\ currentRoadmapId' = app.currentRoadmapId

\* the generator view renders the content of the current step
StepShown(n) == user # "null" /\ view = "generator" /\ ~generatingRoadmap /\ step = n

\* ResumeUpload.handleAnalyze, the success branch of the analysis response
HandleAnalyzeResponse ==
    /\ StepShown(1)
    /\ uploadProfile = "null"
    /\ uploadProfile' = "profile"
    /\ UNCHANGED <<step, resumeData, profile, selectedTools, preferences,
                   generatingRoadmap, selection>>
    /\ UNCHANGED <<appVars, store, clock, detailVars, netVars, calcVars, callVars, normVars, flatVars,
                   listVars>>
    /\ UNCHANGED <<authVars, genVars, saveVars>>

\* ResumeUpload.handleContinue -> App.handleResumeComplete; InterestSelector
\* is mounted with an empty selection
HandleResumeComplete ==
    /\ StepShown(1)
    /\ uploadProfile # "null"
    /\ resumeData' = "text"
    /\ profile' = uploadProfile
    /\ step' = 2
    /\ uploadProfile' = "null"
    /\ selection' = <<>>
    /\ UNCHANGED <<selectedTools, preferences, generatingRoadmap>>
    /\ UNCHANGED <<appVars, store, clock, detailVars, netVars, calcVars, callVars, normVars, flatVars,
                   listVars>>
    /\ UNCHANGED <<authVars, genVars, saveVars>>

\* InterestSelector is rendered
SelectorShown == StepShown(2) /\ profile # "null"

\* InterestSelector.toggleTool: a tool card is clicked.  Tools are
\* interchangeable, so the click is on the tool selected last or on the
\* first tool not selected.
ToggleTool(tool) ==
    /\ SelectorShown
    /\ tool \in {Len(selection), Len(selection) + 1}
    /\ selection' = toggleTool(selection, tool)
    /\ UNCHANGED <<step, resumeData, profile, selectedTools, preferences,
                   generatingRoadmap, uploadProfile>>
    /\ UNCHANGED <<appVars, store, clock, detailVars, netVars, calcVars, callVars, normVars, flatVars,
                   listVars>>
    /\ UNCHANGED <<authVars, genVars, saveVars>>

\* InterestSelector.handleGenerate -> App.handleToolsSelected
HandleToolsSelected ==
    /\ SelectorShown
    /\ Len(selection) >= MinSelectedTools
    /\ selectedTools' = selection
    /\ step' = 3
    /\ UNCHANGED <<resumeData, profile, preferences, generatingRoadmap,
                   uploadProfile, selection>>
    /\ UNCHANGED <<appVars, store, clock, detailVars, netVars, calcVars, callVars, normVars, flatVars,
                   listVars>>
    /\ UNCHANGED <<authVars, genVars, saveVars>>

\* a variant of PreferencesShown that ignores generatingRoadmap
PreferencesShown_WhileGenerating ==
    user # "null" /\ view = "generator" /\ step = 3 /\ Len(selectedTools) > 0

\* TimeCommitment is rendered
PreferencesShown == StepShown(3) /\ Len(selectedTools) > 0

\* App.handlePreferencesSet up to `await generateRoadmap`
HandlePreferencesSet ==
    /\ PreferencesShown
    /\ genCount < MaxGenerations
    /\ genInFlight' = genInFlight + 1
    /\ genCount' = genCount + 1
    /\ preferences' = "prefs"
    /\ generatingRoadmap' = TRUE
    /\ appError' = "null"
    /\ UNCHANGED <<step, resumeData, profile, selectedTools, uploadProfile, selection>>
    /\ UNCHANGED <<wizardRoadmap, currentRoadmapId, view>>
    /\ UNCHANGED <<store, clock, detailVars, netVars, calcVars, callVars, normVars, flatVars,
                   listVars>>
    /\ UNCHANGED <<authVars, roadmapGen, saveVars>>

\* App.handlePreferencesSet after the await: the generation succeeded with
\* roadmap g, or failed.  The content of the current step is mounted anew.
HandlePreferencesSetResponse(ok, g) ==
    /\ genInFlight > 0
    /\ genInFlight' = genInFlight - 1
    /\ IF ok
       THEN /\ wizardRoadmap' = Some(g)
            /\ roadmapGen' = genCount
            /\ step' = 4
            /\ UNCHANGED appError
       ELSE /\ appError' = "Failed to generate roadmap"
            /\ UNCHANGED <<wizardRoadmap, roadmapGen, step>>
    /\ generatingRoadmap' = FALSE
    /\ uploadProfile' = "null"
    /\ selection' = <<>>
    /\ UNCHANGED <<resumeData, profile, selectedTools, preferences>>
    /\ UNCHANGED <<currentRoadmapId, view>>
    /\ UNCHANGED <<store, clock, detailVars, netVars, calcVars, callVars, normVars, flatVars,
                   listVars>>
    /\ UNCHANGED <<authVars, genCount, saveVars>>

\* the Back button is rendered below the content of steps 2 and 3
BackShown == SelectorShown \/ PreferencesShown

\* App.handleBack; the step component shown next is mounted anew
HandleBack ==
    /\ BackShown
    /\ SetAppState(handleBack(AppState))
    /\ uploadProfile' = "null"
    /\ selection' = <<>>
    /\ UNCHANGED <<generatingRoadmap, view>>
    /\ UNCHANGED <<store, clock, detailVars, netVars, calcVars, callVars, normVars, flatVars,
                   listVars>>
    /\ UNCHANGED <<authVars, genVars, saveVars>>

\* Start Over is rendered in the header when step > 1, also while a roadmap
\* is being generated, and below the roadmap of step 4
StartOverShown ==
    /\ user # "null"
    /\ view = "generator"
    /\ step > 1 \/ (~generatingRoadmap /\ step = 4 /\ wizardRoadmap # Null)

\* App.handleStartOver
HandleStartOver ==
    /\ StartOverShown
    /\ SetAppState(handleStartOver(AppState))
    /\ uploadProfile' = "null"
    /\ selection' = <<>>
    /\ UNCHANGED <<generatingRoadmap, view>>
    /\ UNCHANGED <<store, clock, detailVars, netVars, calcVars, callVars, normVars, flatVars,
                   listVars>>
    /\ roadmapGen' = 0
    /\ savedGen' = 0
    /\ UNCHANGED <<authVars, genInFlight, genCount, savingRoadmap, saveCalls>>

\* the Save button below the roadmap of step 4 is rendered and not disabled
SaveShown ==
    /\ StepShown(4)
    /\ wizardRoadmap # Null
    /\ ~savingRoadmap
    /\ currentRoadmapId = "null"

\* App.handleSaveRoadmap up to `await saveRoadmap`: the roadmap of the
\* click is the one that will be stored
HandleSaveRoadmapCall ==
    /\ SaveShown
    /\ Len(saveCalls) < MaxSaves
    /\ savingRoadmap' = TRUE
    /\ appError' = "null"
    /\ saveCalls' = Append(saveCalls,
          [roadmap |-> Val(wizardRoadmap), gen |-> roadmapGen, status |-> "inflight"])
    /\ UNCHANGED <<step, resumeData, profile, selectedTools, preferences, generatingRoadmap,
                   uploadProfile, selection>>
    /\ UNCHANGED <<wizardRoadmap, currentRoadmapId, view>>
    /\ UNCHANGED <<store, clock, detailVars, netVars, calcVars, callVars, normVars, flatVars,
                   listVars>>
    /\ UNCHANGED <<authVars, genVars, savedGen>>

\* App.handleSaveRoadmap after the await: addDoc created the document (ok)
\* or the call failed
HandleSaveRoadmapResponse(k, ok) ==
    /\ k \in 1..Len(saveCalls)
    /\ saveCalls[k].status = "inflight"
    /\ IF ok
       THEN /\ clock' = NextSecond(clock)
            /\ store' = Some(saveRoadmap(UserId, roadmapToSave(saveCalls[k].roadmap), clock'))
            /\ currentRoadmapId' = RoadmapId
            /\ savedGen' = saveCalls[k].gen
            /\ saveCalls' = [saveCalls EXCEPT ![k].status = "saved"]
            /\ UNCHANGED appError
       ELSE /\ appError' = "Failed to save roadmap"
            /\ saveCalls' = [saveCalls EXCEPT ![k].status = "failed"]
            /\ UNCHANGED <<store, clock, currentRoadmapId, savedGen>>
    /\ savingRoadmap' = FALSE
    /\ UNCHANGED <<step, resumeData, profile, selectedTools, preferences, generatingRoadmap,
                   uploadProfile, selection>>
    /\ UNCHANGED <<wizardRoadmap, view>>
    /\ UNCHANGED <<detailVars, netVars, calcVars, callVars, normVars, flatVars, listVars>>
    /\ UNCHANGED <<authVars, genVars>>

\* App.handleBackToGenerator, from the list view
HandleBackToGenerator ==
    /\ user # "null"
    /\ view = "list"
    /\ view' = "generator"
    /\ uploadProfile' = "null"
    /\ selection' = <<>>
    /\ UNCHANGED <<step, resumeData, profile, selectedTools, preferences, generatingRoadmap>>
    /\ UNCHANGED <<wizardRoadmap, currentRoadmapId, appError>>
    /\ UNCHANGED <<store, clock, detailVars, netVars, calcVars, callVars, normVars, flatVars,
                   listVars>>
    /\ UNCHANGED <<authVars, genVars, saveVars>>

\* a variant of handleLogout that keeps the roadmap and its saved id
handleLogout_KeepRoadmap(app) ==
    [app EXCEPT !.step = 1, !.resumeData = "null", !.profile = "null",
                !.selectedTools = <<>>, !.preferences = "empty", !.error = "null"]

\* App.handleLogout after `await signOut(auth)`: the wizard state it resets
handleLogout(app) ==
    [app EXCEPT !.step = 1, !.resumeData = "null", !.profile = "null",
                !.selectedTools = <<>>, !.preferences = "empty",
                !.roadmap = Null, !.error = "null", !.currentRoadmapId = "null"]

\* App.handleLogout up to `await signOut(auth)`: the header's Logout button
\* is clicked and window.confirm is answered
HandleLogout(answer) ==
    /\ user # "null"
    /\ view \in {"generator", "list"}
    /\ logoutConfirm' = Some(answer)
    /\ IF answer
       THEN /\ Len(signOutCalls) < MaxLogouts
            /\ signOutCalls' = Append(signOutCalls, "inflight")
       ELSE UNCHANGED signOutCalls
    /\ UNCHANGED user
    /\ UNCHANGED <<step, resumeData, profile, selectedTools, preferences, generatingRoadmap,
                   uploadProfile, selection>>
    /\ UNCHANGED appVars
    /\ UNCHANGED <<store, clock, detailVars, netVars, calcVars, callVars, normVars, flatVars,
                   listVars>>
    /\ UNCHANGED <<genVars, saveVars>>

\* App.handleLogout after the await: signOut succeeded (and
\* onAuthStateChanged cleared the user), or it threw
HandleLogoutResponse(k, ok) ==
    /\ k \in 1..Len(signOutCalls)
    /\ signOutCalls[k] = "inflight"
    /\ signOutCalls' = [signOutCalls EXCEPT ![k] = "done"]
    /\ IF ok
       THEN /\ SetAppState(handleLogout(AppState))
            /\ view' = "generator"
            /\ user' = "null"
            /\ roadmapGen' = IF wizardRoadmap' = Null THEN 0 ELSE roadmapGen
            /\ savedGen' = IF currentRoadmapId' = "null" THEN 0 ELSE savedGen
            /\ uploadProfile' = "null"
            /\ selection' = <<>>
       ELSE /\ appError' = "Failed to logout. Please try again."
            /\ UNCHANGED <<step, resumeData, profile, selectedTools, preferences,
                           wizardRoadmap, currentRoadmapId, view, user, roadmapGen, savedGen,
                           uploadProfile, selection>>
    /\ UNCHANGED <<generatingRoadmap, logoutConfirm, genInFlight, genCount, savingRoadmap,
                   saveCalls>>
    /\ UNCHANGED <<store, clock, detailVars, netVars, calcVars, callVars, normVars, flatVars,
                   listVars>>

\* onAuthStateChanged after a sign-in on the Login page
Login ==
    /\ user = "null"
    /\ user' = UserId
    /\ UNCHANGED <<signOutCalls, logoutConfirm>>
    /\ UNCHANGED <<step, resumeData, profile, selectedTools, preferences, generatingRoadmap,
                   uploadProfile, selection>>
    /\ UNCHANGED appVars
    /\ UNCHANGED <<store, clock, detailVars, netVars, calcVars, callVars, normVars, flatVars,
                   listVars>>
    /\ UNCHANGED <<genVars, saveVars>>

\* the generation responses of the wizard: a roadmap with one phase and
\* one without phases (the wizard does not look into a roadmap)
WizardRoadmaps ==
    { g \in GenRoadmaps :
        /\ Len(g.phases) + Len(g.learning_resources) = 1
        /\ \A i \in 1..Len(g.phases) :
              g.phases[i].id = NoId /\ Len(g.phases[i].learning_objectives) = 0
        /\ \A i \in 1..Len(g.learning_resources) :
              Len(g.learning_resources[i].learning_objectives) = 0 }

WizardNext ==
    \/ HandleAnalyzeResponse
    \/ HandleResumeComplete
    \/ \E tool \in ToolCatalog : ToggleTool(tool)
    \/ HandleToolsSelected
    \/ HandlePreferencesSet
    \/ \E ok \in BOOLEAN, g \in WizardRoadmaps : HandlePreferencesSetResponse(ok, g)
    \/ HandleBack
    \/ HandleStartOver
    \/ HandleSaveRoadmapCall
    \/ \E k \in 1..MaxSaves, ok \in BOOLEAN : HandleSaveRoadmapResponse(k, ok)
    \/ user # "null" /\ HandleViewMyRoadmaps
    \/ HandleBackToGenerator
    \/ \E answer \in BOOLEAN : HandleLogout(answer)
    \/ \E k \in 1..MaxLogouts, ok \in BOOLEAN : HandleLogoutResponse(k, ok)
    \/ Login

SpecWizard == Init /\ [][WizardNext]_vars

\* --------------------------------------- the collection and the list view
MaxDocs == 2
MaxSeconds == 1
MaxNanos == 1
MaxPending == 1

DocIds == 1..MaxDocs
Users == {UserId, "u2"}

\* a < b for Timestamps
TsLess(a, b) ==
    \/ a.seconds < b.seconds
    \/ a.seconds = b.seconds /\ a.nanoseconds < b.nanoseconds

\* the times the server can assign to the next write: later than its clock,
\* in the same second or in the next one
ServerTimes ==
    (IF clock.nanoseconds < MaxNanos THEN {SameSecond(clock)} ELSE {})
    \cup (IF clock.seconds < MaxSeconds THEN {NextSecond(clock)} ELSE {})

\* the roadmapData objects saveRoadmap is called with: the fields the list
\* reads, and such objects with an owner, a status or a creation time of
\* their own
SaveInputs ==
    { [progress |-> RoadmapToSaveProgress],
      [progress |-> RoadmapToSaveProgress, userId |-> "u2", status |-> "archived",
       createdAt |-> Timestamp(MaxSeconds + 1, 0)] }

\* `{ id: doc.id, ...doc.data() }`
SnapshotEntry(coll, id) == Merge([id |-> id], coll[id])

\* where('userId', '==', userId): the ids of the matching documents
OwnedBy(coll, userId) == { id \in DOMAIN coll : coll[id].userId = userId }

\* the query with orderBy('createdAt', 'desc'): latest first (documents of
\* one creation time by descending id)
RECURSIVE QueryOrdered(_, _)
QueryOrdered(coll, ids) ==
    IF ids = {} THEN <<>>
    ELSE LET first == CHOOSE x \in ids : \A y \in ids \ {x} :
                          \/ TsLess(coll[y].createdAt, coll[x].createdAt)
                          \/ coll[y].createdAt = coll[x].createdAt /\ y < x
         IN  <<SnapshotEntry(coll, first)>> \o QueryOrdered(coll, ids \ {first})

\* the query without orderBy: the documents come in the order of their ids
RECURSIVE QueryUnordered(_, _)
QueryUnordered(coll, ids) ==
    IF ids = {} THEN <<>>
    ELSE LET first == CHOOSE x \in ids : \A y \in ids \ {x} : x < y
         IN  <<SnapshotEntry(coll, first)>> \o QueryUnordered(coll, ids \ {first})

\* `a.createdAt?.seconds || 0`
SecondsOf(r) == IF "createdAt" \in DOMAIN r THEN r.createdAt.seconds ELSE 0

\* roadmaps.sort((a, b) => bTime - aTime): Array.prototype.sort is stable,
\* so x goes behind every entry whose time is not smaller than its own
RECURSIVE SortInsert(_, _)
SortInsert(sorted, x) ==
    IF sorted = <<>> THEN <<x>>
    ELSE IF SecondsOf(Head(sorted)) >= SecondsOf(x)
         THEN <<Head(sorted)>> \o SortInsert(Tail(sorted), x)
         ELSE <<x>> \o sorted

RECURSIVE SortBySecondsDesc(_)
SortBySecondsDesc(roadmaps) ==
    IF roadmaps = <<>> THEN <<>>
    ELSE SortInsert(SortBySecondsDesc(SubSeq(roadmaps, 1, Len(roadmaps) - 1)),
                    roadmaps[Len(roadmaps)])

\* a variant of getUserRoadmaps without the client-side sort
getUserRoadmaps_NoClientSort(coll, userId, orderedOk, fallbackOk) ==
    IF orderedOk
    THEN [success |-> TRUE, roadmaps |-> QueryOrdered(coll, OwnedBy(coll, userId))]
    ELSE IF fallbackOk
    THEN [success |-> TRUE, roadmaps |-> QueryUnordered(coll, OwnedBy(coll, userId))]
    ELSE [success |-> FALSE, roadmaps |-> <<>>]

\* roadmapservice.getUserRoadmaps.  orderedOk: the query with orderBy
\* succeeded; fallbackOk: the query without it did (it runs only when the
\* first one threw)
getUserRoadmaps(coll, userId, orderedOk, fallbackOk) ==
    IF orderedOk
    THEN [success |-> TRUE,
          roadmaps |-> SortBySecondsDesc(QueryOrdered(coll, OwnedBy(coll, userId)))]
    ELSE IF fallbackOk
    THEN [success |-> TRUE,
          roadmaps |-> SortBySecondsDesc(QueryUnordered(coll, OwnedBy(coll, userId)))]
    ELSE [success |-> FALSE, roadmaps |-> <<>>]

\* the collection with document id set to doc, and without document id
PutDoc(coll, id, doc) ==
    [x \in DOMAIN coll \cup {id} |-> IF x = id THEN doc ELSE coll[x]]

RemoveDoc(coll, id) == [x \in DOMAIN coll \ {id} |-> coll[x]]

\* roadmapservice.saveRoadmap called with (userId, roadmapData); addDoc
\* gives the document the unused id `id` and the server time `now`, or fails
SaveRoadmapCall(userId, roadmapData, id, now, ok) ==
    /\ id \notin DOMAIN collection
    /\ now \in ServerTimes
    /\ IF ok
       THEN /\ collection' = PutDoc(collection, id, saveRoadmap(userId, roadmapData, now))
            /\ clock' = now
            /\ lastSave' = Some([success |-> TRUE, roadmapId |-> id])
       ELSE /\ lastSave' = Some([success |-> FALSE, roadmapId |-> 0])
            /\ UNCHANGED <<collection, clock>>
    /\ UNCHANGED <<listMounted, listRoadmaps, listLoading, pendingOps, lastConfirm,
                   lastQuery>>
    /\ UNCHANGED notListVars

\* a store call of the list view
ListOp(op, id, status) == [op |-> op, id |-> id, status |-> status]
GetUserRoadmapsOp == ListOp("getUserRoadmaps", 0, "none")

\* RoadmapList is mounted for the logged-in user; its effect calls
\* fetchRoadmaps
MountRoadmapList ==
    /\ ~listMounted
    /\ listMounted' = TRUE
    /\ listRoadmaps' = <<>>
    /\ listLoading' = TRUE
    /\ pendingOps' = pendingOps \cup {GetUserRoadmapsOp}
    /\ UNCHANGED <<collection, clock, lastConfirm, lastSave, lastQuery>>
    /\ UNCHANGED notListVars

\* RoadmapList.fetchRoadmaps after `await getUserRoadmaps`
GetUserRoadmapsResponse(orderedOk, fallbackOk) ==
    /\ GetUserRoadmapsOp \in pendingOps
    /\ LET result == getUserRoadmaps(collection, UserId, orderedOk, fallbackOk)
       IN  /\ lastQuery' = Some([orderedOk |-> orderedOk, fallbackOk |-> fallbackOk,
                                 success |-> result.success])
           /\ listRoadmaps' = IF result.success THEN result.roadmaps ELSE listRoadmaps
    /\ listLoading' = FALSE
    /\ pendingOps' = pendingOps \ {GetUserRoadmapsOp}
    /\ UNCHANGED <<collection, clock, listMounted, lastConfirm, lastSave>>
    /\ UNCHANGED notListVars

\* the cards of the list are rendered
ListShown == listMounted /\ ~listLoading

\* the ids of the roadmaps the list shows
ShownIds == { listRoadmaps[k].id : k \in 1..Len(listRoadmaps) }

\* a variant of handleDelete that deletes whatever the prompt's answer is
handleDeleteCalls_Always(answer) == TRUE

\* RoadmapList.handleDelete: deleteRoadmap is called if window.confirm
\* returned true
handleDeleteCalls(answer) == answer

\* RoadmapList.handleDelete up to `await deleteRoadmap`: the delete button
\* of roadmap id is clicked and the prompt is answered
HandleDelete(id, answer) ==
    /\ ListShown
    /\ id \in ShownIds
    /\ Cardinality(pendingOps) < MaxPending
    /\ lastConfirm' = Some([id |-> id, answer |-> answer])
    /\ pendingOps' = IF handleDeleteCalls(answer)
                     THEN pendingOps \cup {ListOp("deleteRoadmap", id, "none")}
                     ELSE pendingOps
    /\ UNCHANGED <<collection, clock, listMounted, listRoadmaps, listLoading, lastSave,
                   lastQuery>>
    /\ UNCHANGED notListVars

\* RoadmapList.handleDelete after the await: deleteDoc removed the document
\* (it succeeds for a missing document too) and fetchRoadmaps is called, or
\* it failed
DeleteRoadmapResponse(id, ok) ==
    /\ ListOp("deleteRoadmap", id, "none") \in pendingOps
    /\ IF ok
       THEN /\ collection' = RemoveDoc(collection, id)
            /\ listLoading' = TRUE
            /\ pendingOps' = (pendingOps \ {ListOp("deleteRoadmap", id, "none")})
                                \cup {GetUserRoadmapsOp}
       ELSE /\ pendingOps' = pendingOps \ {ListOp("deleteRoadmap", id, "none")}
            /\ UNCHANGED <<collection, listLoading>>
    /\ UNCHANGED <<clock, listMounted, listRoadmaps, lastConfirm, lastSave, lastQuery>>
    /\ UNCHANGED notListVars

\* the status the select of roadmap id shows
ShownStatus(id) ==
    (CHOOSE r \in { listRoadmaps[k] : k \in 1..Len(listRoadmaps) } : r.id = id).status

\* RoadmapList.handleStatusChange up to `await updateRoadmapStatus`: another
\* option of the select of roadmap id is picked
HandleStatusChangeCall(id, newStatus) ==
    /\ ListShown
    /\ id \in ShownIds
    /\ newStatus # ShownStatus(id)
    /\ Cardinality(pendingOps) < MaxPending
    /\ pendingOps' = pendingOps \cup {ListOp("updateRoadmapStatus", id, newStatus)}
    /\ UNCHANGED <<collection, clock, listMounted, listRoadmaps, listLoading, lastConfirm,
                   lastSave, lastQuery>>
    /\ UNCHANGED notListVars

\* RoadmapList.handleStatusChange after the await: updateDoc stored the
\* status at server time now and fetchRoadmaps is called, or it failed (as
\* it does for a missing document)
UpdateRoadmapStatusResponse(id, newStatus, now, ok) ==
    /\ ListOp("updateRoadmapStatus", id, newStatus) \in pendingOps
    /\ now \in ServerTimes
    /\ LET success == ok /\ id \in DOMAIN collection
       IN  IF success
           THEN /\ collection' = PutDoc(collection, id,
                                       updateRoadmapStatus(collection[id], newStatus, now))
                /\ clock' = now
                /\ listLoading' = TRUE
                /\ pendingOps' = (pendingOps \ {ListOp("updateRoadmapStatus", id, newStatus)})
                                    \cup {GetUserRoadmapsOp}
           ELSE /\ pendingOps' = pendingOps \ {ListOp("updateRoadmapStatus", id, newStatus)}
                /\ UNCHANGED <<collection, clock, listLoading>>
    /\ UNCHANGED <<listMounted, listRoadmaps, lastConfirm, lastSave, lastQuery>>
    /\ UNCHANGED notListVars

\* RoadmapList has no error state and renders no error message
ListErrorShown == FALSE

\* every Timestamp the server can assign
AllTimes == { Timestamp(sec, n) : sec \in 0..MaxSeconds, n \in 0..MaxNanos }

StoreNext ==
    \/ \E userId \in Users, roadmapData \in SaveInputs, id \in DocIds,
          now \in AllTimes, ok \in BOOLEAN :
            SaveRoadmapCall(userId, roadmapData, id, now, ok)
    \/ MountRoadmapList
    \/ \E orderedOk \in BOOLEAN, fallbackOk \in BOOLEAN :
            GetUserRoadmapsResponse(orderedOk, fallbackOk)
    \/ \E id \in DocIds, answer \in BOOLEAN : HandleDelete(id, answer)
    \/ \E id \in DocIds, ok \in BOOLEAN : DeleteRoadmapResponse(id, ok)
    \/ \E id \in DocIds, newStatus \in StatusChoices : HandleStatusChangeCall(id, newStatus)
    \/ \E id \in DocIds, newStatus \in StatusChoices, now \in AllTimes, ok \in BOOLEAN :
            UpdateRoadmapStatusResponse(id, newStatus, now, ok)

SpecStore == Init /\ [][StoreNext]_vars

\* --------------------------------- the toggle handlers called with any ids
NonexistentPhase == <<"nonexistent-phase", 0, 0, 0>>
NonexistentItem == <<"nonexistent-item", 0, 0, 0>>

\* the ids a call is made with: those of the roadmap's phases (items), the
\* undefined id, and one that no phase (item) has
CallPhaseIds(rm) ==
    { rm.phases[i].id : i \in 1..Len(rm.phases) } \cup {NoId, NonexistentPhase}

CallItemIds(rm) ==
    UNION { { rm.phases[i].learning_objectives[j].id :
                j \in 1..Len(rm.phases[i].learning_objectives) }
            \cup { rm.phases[i].milestones[j].id :
                     j \in 1..Len(rm.phases[i].milestones) } :
            i \in 1..Len(rm.phases) }
    \cup {NoId, NonexistentItem}

\* `roadmap.phases.map` and `phase.<list>.map` throw a TypeError when the
\* array is undefined: no phases field, or a phase with the id asked for
\* that has no such list
ToggleRaises(rm, listField, phaseId) ==
    \/ "phases" \notin DOMAIN rm
    \/ \E i \in 1..Len(rm.phases) :
          rm.phases[i].id = phaseId /\ listField \notin DOMAIN rm.phases[i]

\* the detail view showing the roadmap that was generated as g, saved and
\* fetched
DetailShowing(g) ==
    /\ wizardRoadmap = Some(g)
    /\ currentRoadmapId = RoadmapId
    /\ appError = "null"
    /\ view = "detail"
    /\ clock = NextSecond(Timestamp(0, 0))
    /\ store = Some(saveRoadmap(UserId, roadmapToSave(g), clock))
    /\ mountNo = 1
    /\ fetchPending = FALSE
    /\ roadmap = Some(NormalizeRoadmap(Val(store), mountNo))
    /\ loading = FALSE
    /\ saving = FALSE
    /\ error = "null"
    /\ lastSaved = "null"
    /\ errorTimers = 0
    /\ writes = <<>>
    /\ applyLog = <<>>

ToggleInit ==
    /\ \E g \in GenRoadmaps : DetailShowing(g)
    /\ CalcIdle
    /\ CallIdle
    /\ WizardInit
    /\ ListIdle
    /\ NormIdle
    /\ FlatIdle

\* toggleObjective(phaseId, itemId) or toggleMilestone(phaseId, itemId) up
\* to the await inside saveProgress, for any pair of ids
CallToggle(kind, phaseId, itemId) ==
    /\ Mounted
    /\ roadmap # Null
    /\ Len(writes) < MaxToggles
    /\ LET rm == Val(roadmap)
           listField == IF kind = "objective" THEN "learning_objectives" ELSE "milestones"
           raised == ToggleRaises(rm, listField, phaseId)
           updatedRoadmap == IF kind = "objective"
                             THEN toggleObjective(rm, phaseId, itemId)
                             ELSE toggleMilestone(rm, phaseId, itemId)
       IN  /\ toggleCall' = Some([kind |-> kind, phaseId |-> phaseId, itemId |-> itemId,
                                  raised |-> raised])
           /\ IF raised
              THEN UNCHANGED <<roadmap, writes, saving>>
              ELSE /\ roadmap' = Some(updatedRoadmap)
                   /\ writes' = Append(writes, WriteRecord(rm, updatedRoadmap, kind, 0, 0))
                   /\ saving' = TRUE
    /\ UNCHANGED <<mountNo, fetchPending, loading, error, lastSaved, errorTimers>>
    /\ UNCHANGED <<store, clock, applyLog>>
    /\ UNCHANGED appVars
    /\ UNCHANGED <<calcVars, wizVars, listVars, normVars, flatVars>>

ToggleNext ==
    \E kind \in {"objective", "milestone"} :
        \E phaseId \in CallPhaseIds(Val(roadmap)), itemId \in CallItemIds(Val(roadmap)) :
            CallToggle(kind, phaseId, itemId)

SpecToggle == ToggleInit /\ [][ToggleNext]_vars

\* ------------------------------------------------------------ properties
\* the checklist positions of a phases array, and the entry at a position
Positions(phases) ==
    { <<"objective", i, j>> : i \in 1..Len(phases), j \in 1..(MaxItems + CalcMaxObjectives) }
    \cup { <<"milestone", i, j>> : i \in 1..Len(phases), j \in 1..(MaxItems + CalcMaxObjectives) }

ListAt(phases, kind, i) ==
    IF kind = "objective" THEN OrEmpty(phases[i], "learning_objectives")
    ELSE OrEmpty(phases[i], "milestones")

ItemPositions(phases) ==
    { q \in Positions(phases) : q[3] <= Len(ListAt(phases, q[1], q[2])) }

ItemAt(phases, q) == ListAt(phases, q[1], q[2])[q[3]]

\* a step of toggleObjective or toggleMilestone: only they issue a write
ToggleStep == Len(writes') = Len(writes) + 1

\* the entries whose completed flag differs between two roadmaps of the
\* same shape
FlippedItems(a, b) ==
    { q \in ItemPositions(a.phases) :
        ItemAt(a.phases, q).completed # ItemAt(b.phases, q).completed }

\* b is a but for completed flags
SameButCompleted(a, b) ==
    /\ [b EXCEPT !.phases = a.phases] = a
    /\ Len(b.phases) = Len(a.phases)
    /\ \A i \in 1..Len(a.phases) :
        /\ [b.phases[i] EXCEPT !.learning_objectives = a.phases[i].learning_objectives,
                               !.milestones = a.phases[i].milestones] = a.phases[i]
        /\ Len(b.phases[i].learning_objectives) = Len(a.phases[i].learning_objectives)
        /\ Len(b.phases[i].milestones) = Len(a.phases[i].milestones)
    /\ \A q \in ItemPositions(a.phases) :
        [ItemAt(b.phases, q) EXCEPT !.completed = ItemAt(a.phases, q).completed]
            = ItemAt(a.phases, q)

\* C1: a toggle of an objective or a milestone changes the completed flag of
\* exactly one checklist item of the in-memory roadmap and nothing else,
\* whatever ids the stored phases and items carry.
C1_ToggleChangesExactlyOneItem ==
    [][ToggleStep =>
          /\ SameButCompleted(Val(roadmap), Val(roadmap'))
          /\ Cardinality(FlippedItems(Val(roadmap), Val(roadmap'))) = 1]_vars

\* C2: once fetchRoadmap has put a roadmap in the view's state, every
\* objective and milestone has an id different from that of every other
\* checklist item, also after any toggles and phase expansions.
C2_ChecklistIdsUnique ==
    roadmap # Null =>
        \A q1 \in ItemPositions(Val(roadmap).phases), q2 \in ItemPositions(Val(roadmap).phases) :
            q1 # q2 => ItemAt(Val(roadmap).phases, q1).id # ItemAt(Val(roadmap).phases, q2).id

\* the write that the store applied last
LastApplied == writes[applyLog[Len(applyLog)]]

\* C3: writes are not serialized; a second write can be issued while the
\* first is in flight, and the stored checklist is the payload of the
\* write the store applied last, whichever toggle the user made last.
C3_StoredIsLastAppliedPayload ==
    (store # Null /\ applyLog # <<>>) =>
        /\ Val(store).phases = LastApplied.payload.phases
        /\ Val(store).progress = LastApplied.payload.progress

\* C3 witness: two writes overlapped, the store applied the second before
\* the first, both have settled, and the stored checklist is not the one
\* the view shows.
C3_Witness ==
    /\ Len(writes) = 2
    /\ writes[2].overlap
    /\ applyLog = <<2, 1>>
    /\ Mounted /\ writes[1].mount = mountNo /\ writes[2].mount = mountNo
    /\ ~saving
    /\ Val(store).phases # Val(roadmap).phases
    /\ Val(store).phases = writes[1].payload.phases

\* the first two writes toggle the same objective, the second was issued
\* before the first settled, and the store applied both in issue order
DoubleToggleInOrder ==
    /\ Len(writes) >= 2
    /\ writes[1].kind = "objective"
    /\ writes[2].kind = "objective"
    /\ writes[1].pos = writes[2].pos
    /\ writes[2].overlap
    /\ applyLog = <<1, 2>>
    /\ store # Null

\* C4: after a double toggle of one objective whose two writes the store
\* applied in issue order, the stored completed value of that objective is
\* the one it had before the first toggle.
C4_DoubleToggleRestoresStored ==
    DoubleToggleInOrder =>
        ItemAt(Val(store).phases, <<"objective", writes[1].pos[1], writes[1].pos[2]>>).completed
            = ItemAt(writes[1].pre, <<"objective", writes[1].pos[1], writes[1].pos[2]>>).completed

C4_Witness ==
    /\ DoubleToggleInOrder
    /\ Len(writes) = 2
    /\ ItemAt(writes[1].payload.phases,
              <<"objective", writes[1].pos[1], writes[1].pos[2]>>).completed = "true"

\* a step in which saveProgress of a mounted view learns that write k failed
FailedSaveStep(k) ==
    /\ k \in 1..Len(writes)
    /\ writes[k].status = "inflight"
    /\ Len(writes') = Len(writes)
    /\ writes'[k].status = "rejected"
    /\ Live(k)

\* C5: a toggle is optimistic.  The toggle step itself shows the flipped
\* flag in the view and issues a write carrying it; when the write fails
\* the view sets an error, keeps the roadmap it shows, and the stored
\* document is unchanged.
C5_OptimisticNoRollback ==
    [][/\ ToggleStep =>
            LET w == writes'[Len(writes')]
                q == <<w.kind, w.pos[1], w.pos[2]>>
            IN  /\ ItemAt(Val(roadmap').phases, q).completed
                      = JsNot(ItemAt(Val(roadmap).phases, q).completed)
                /\ w.payload.phases = Val(roadmap').phases
                /\ w.status = "inflight"
                /\ store' = store
       /\ \A k \in WriteIndices :
            FailedSaveStep(k) =>
                /\ error' = "Failed to save progress"
                /\ roadmap' = roadmap
                /\ store' = store]_vars

\* C5 witness: the only write failed; the view shows an error and a
\* completed item that the stored document does not have.
C5_Witness ==
    /\ Len(writes) = 1
    /\ writes[1].status = "rejected"
    /\ Live(1)
    /\ error = "Failed to save progress"
    /\ ~saving
    /\ LET q == <<writes[1].kind, writes[1].pos[1], writes[1].pos[2]>>
       IN  /\ Truthy(ItemAt(Val(roadmap).phases, q).completed)
           /\ Val(roadmap).phases # writes[1].pre
           /\ Val(store).phases # Val(roadmap).phases

\* round(100 * completed / total) without the code's arithmetic: the
\* percentage p with p <= 100*c/t + 1/2 < p + 1, and 0 for t = 0
IsRoundedPct(p, c, t) ==
    IF t = 0 THEN p = 0
    ELSE /\ 2 * t * p <= 200 * c + t
         /\ 200 * c + t < 2 * t * p + 2 * t

CompletedIn(phases) ==
    Cardinality({ q \in ItemPositions(phases) : Truthy(ItemAt(phases, q).completed) })

TotalIn(phases) == Cardinality(ItemPositions(phases))

CalcPhasesOf(r) == OrEmpty(r, "phases")

InPercentRange(p) == p \in 0..100

C8_DisplayedEqualsSaved ==
    (calcShown # Null /\ calcSaved # Null) => Val(calcShown) = Val(calcSaved)

\* C8 witness: both computed for a roadmap whose completed items include a
\* milestone, with a value strictly between 0 and 100.
C8_Witness ==
    /\ calcShown # Null
    /\ calcSaved # Null
    /\ Val(calcSaved) \in 1..99
    /\ \E q \in ItemPositions(CalcPhasesOf(Val(calcRoadmap))) :
          q[1] = "milestone" /\ Truthy(ItemAt(CalcPhasesOf(Val(calcRoadmap)), q).completed)

\* Scenario A: 2 phases, each with 2 objectives and 1 milestone, 3 items
\* marked complete, progress computed
ScenarioA ==
    /\ "phases" \in DOMAIN Val(calcRoadmap)
    /\ Len(Val(calcRoadmap).phases) = 2
    /\ \A i \in 1..2 :
        /\ Len(OrEmpty(Val(calcRoadmap).phases[i], "learning_objectives")) = 2
        /\ Len(OrEmpty(Val(calcRoadmap).phases[i], "milestones")) = 1
    /\ CompletedIn(Val(calcRoadmap).phases) = 3
    /\ calcSaved # Null

\* C9 as stated: in Scenario A the computed progress is 33.
C9_ScenarioGives33 == ScenarioA => Val(calcSaved) = 33

\* C9 amended: Scenario A has 6 items, and with 3 of them complete the
\* computed progress is round(100 * 3 / 6) = 50.
C9_ScenarioGives50 ==
    ScenarioA => (TotalIn(Val(calcRoadmap).phases) = 6 /\ Val(calcSaved) = 50)

C9_Witness == ScenarioA /\ calcShown # Null

\* the roadmap after the checkbox at position q has been clicked twice
DoubleToggle(rm, q) ==
    LET phaseId == rm.phases[q[2]].id
        itemId == ItemAt(rm.phases, q).id
    IN  IF q[1] = "objective"
        THEN toggleObjective(toggleObjective(rm, phaseId, itemId), phaseId, itemId)
        ELSE toggleMilestone(toggleMilestone(rm, phaseId, itemId), phaseId, itemId)

\* C10 as stated: toggling the same valid pair twice gives a roadmap equal
\* to the original in every field, completed included.
C10_DoubleToggleIsIdentity ==
    roadmap # Null =>
        \A q \in ItemPositions(Val(roadmap).phases) :
            DoubleToggle(Val(roadmap), q) = Val(roadmap)

\* C10 amended: toggling the same valid pair twice gives a roadmap equal to
\* the original in every field but completed; every completed flag has its
\* original truth value, and is unchanged unless the item had no completed
\* field, in which case it is now false.
C10_DoubleToggleRestoresTruthValues ==
    roadmap # Null =>
        \A q \in ItemPositions(Val(roadmap).phases) :
            LET rm == Val(roadmap)
                tt == DoubleToggle(rm, q)
            IN  /\ SameButCompleted(rm, tt)
                /\ \A q2 \in ItemPositions(rm.phases) :
                    LET before == ItemAt(rm.phases, q2).completed
                        after == ItemAt(tt.phases, q2).completed
                    IN  IF before = UNDEF THEN after \in {UNDEF, "false"}
                        ELSE after = before

\* C10 witness: a milestone stored without a completed field has been
\* clicked twice; the roadmap shown differs from the one before the first
\* click only in that the field is now false.
C10_Witness ==
    /\ Len(writes) = 2
    /\ Mounted /\ roadmap # Null
    /\ writes[1].kind = "milestone" /\ writes[2].kind = "milestone"
    /\ writes[1].pos = writes[2].pos
    /\ writes[1].mount = mountNo /\ writes[2].mount = mountNo
    /\ LET q == <<"milestone", writes[1].pos[1], writes[1].pos[2]>>
       IN  /\ ItemAt(writes[1].pre, q).completed = UNDEF
           /\ ItemAt(Val(roadmap).phases, q).completed = "false"
    /\ Val(roadmap).phases # writes[1].pre

\* a write issued by the mounted detail view has not settled yet
WriteInFlight == \E k \in 1..Len(writes) : writes[k].status = "inflight" /\ Live(k)

\* C12: while a progress write issued by a checklist toggle of the mounted
\* detail view is in flight, the view's saving flag is true.
C12_SavingWhileWriteInFlight == WriteInFlight => saving

\* the call's pair of ids matches no item of the list in a phase of rm
Unmatched(rm, call) ==
    ~ \E i \in 1..Len(rm.phases) :
        /\ rm.phases[i].id = call.phaseId
        /\ \E j \in 1..Len(ListAt(rm.phases, call.kind, i)) :
              ListAt(rm.phases, call.kind, i)[j].id = call.itemId

\* a step in which one of the toggle handlers ran
CallStep == toggleCall' # Null /\ (ToggleStep \/ Val(toggleCall').raised)

\* C11: a toggle whose (phaseId, itemId) pair matches no phase or no item of
\* the in-memory roadmap raises no error and leaves the roadmap equal to its
\* value before the call.
C11_UnmatchedToggleIsNoOp ==
    [][(CallStep /\ Unmatched(Val(roadmap), Val(toggleCall'))) =>
          /\ ~Val(toggleCall').raised
          /\ roadmap' = roadmap]_vars

\* C11 witness: the only call so far named a phase of the roadmap and an
\* item id that no item has; the roadmap, which has items, is the one before
\* the call.
C11_Witness ==
    /\ toggleCall # Null
    /\ Len(writes) = 1
    /\ Unmatched(Val(roadmap), Val(toggleCall))
    /\ \E i \in 1..Len(Val(roadmap).phases) : Val(roadmap).phases[i].id = Val(toggleCall).phaseId
    /\ Val(toggleCall).itemId = NonexistentItem
    /\ ItemPositions(Val(roadmap).phases) # {}
    /\ Val(roadmap).phases = writes[1].pre

\* C13: in every reachable state of the App, step >= 2 implies a non-null
\* profile, step >= 3 implies that between 2 and 8 tools are selected, and
\* step = 4 implies that a generated roadmap is present.
C13_WizardGuards ==
    /\ step >= 2 => profile # "null"
    /\ step >= 3 => Len(selectedTools) \in MinSelectedTools..MaxSelectedTools
    /\ step = 4 => wizardRoadmap # Null

\* C14: Start Over, from any step at which it is offered, sets step to 1
\* and resets resume text, profile, selected tools, preferences, roadmap,
\* error and the saved-roadmap id to their initial values in the one step
\* of the click, and leaves the view as it is.
C14_StartOverResetsAll ==
    [][HandleStartOver =>
          /\ step' = 1
          /\ resumeData' = "null"
          /\ profile' = "null"
          /\ selectedTools' = <<>>
          /\ preferences' = "empty"
          /\ wizardRoadmap' = Null
          /\ appError' = "null"
          /\ currentRoadmapId' = "null"
          /\ view' = view]_vars

\* C14 witness: a roadmap was generated and saved, which set the
\* saved-roadmap id; after Start Over the wizard is back in its initial
\* state with the id cleared.
C14_Witness ==
    /\ store # Null
    /\ currentRoadmapId = "null"
    /\ step = 1
    /\ profile = "null"
    /\ wizardRoadmap = Null
    /\ selectedTools = <<>>
    /\ view = "generator"

\* C15: Back decrements the step by exactly one and clears the error when
\* step > 1, does nothing at step 1, and in all cases leaves profile,
\* selected tools, preferences, roadmap and the view unchanged.
C15_BackDecrementsAndClearsError ==
    [][/\ HandleBack =>
            /\ step > 1
            /\ step' = step - 1
            /\ appError' = "null"
            /\ UNCHANGED <<profile, selectedTools, preferences, wizardRoadmap, view>>
       /\ step = 1 => handleBack(AppState) = AppState]_vars

\* C15 witness: the generation failed at step 3, which set the error; Back
\* led to step 2 with the error cleared and the tools and preferences kept.
C15_Witness ==
    /\ step = 2
    /\ appError = "null"
    /\ preferences = "prefs"
    /\ Len(selectedTools) >= MinSelectedTools
    /\ profile # "null"
    /\ ~generatingRoadmap

\* the delete call for roadmap id is issued in this step
DeleteIssued(id) ==
    /\ ListOp("deleteRoadmap", id, "none") \notin pendingOps
    /\ ListOp("deleteRoadmap", id, "none") \in pendingOps'

\* C16: deleteRoadmap is called for a roadmap only in the step in which the
\* confirmation prompt of that delete is answered with yes; when the prompt
\* is declined no store call is issued and neither the collection nor the
\* list changes.
C16_DeleteOnlyAfterConfirm ==
    [][/\ \A id \in DocIds :
            DeleteIssued(id) => lastConfirm' = Some([id |-> id, answer |-> TRUE])
       /\ \A id \in DocIds :
            HandleDelete(id, FALSE) =>
                UNCHANGED <<collection, pendingOps, listRoadmaps, listLoading>>
       /\ \A id \in DOMAIN collection \ DOMAIN collection' :
            ListOp("deleteRoadmap", id, "none") \in pendingOps]_vars

\* C16 witness: roadmap 1 was saved and, after a confirmed delete, is gone;
\* the delete of roadmap 2 was then declined, and roadmap 2 is still stored
\* and listed with no store call in flight.
C16_Witness ==
    /\ lastSave = Some([success |-> TRUE, roadmapId |-> 1])
    /\ 1 \notin DOMAIN collection
    /\ lastConfirm = Some([id |-> 2, answer |-> FALSE])
    /\ 2 \in DOMAIN collection
    /\ ShownIds = {2}
    /\ pendingOps = {}

\* the entries are the owner's documents of the collection, each once
IsOwnersList(roadmaps, coll, userId) ==
    /\ Len(roadmaps) = Cardinality(OwnedBy(coll, userId))
    /\ { roadmaps[k].id : k \in 1..Len(roadmaps) } = OwnedBy(coll, userId)
    /\ \A k \in 1..Len(roadmaps) : roadmaps[k] = SnapshotEntry(coll, roadmaps[k].id)

\* no entry was created before an entry that follows it
CreatedAtDescending(roadmaps) ==
    \A k \in 1..Len(roadmaps), l \in 1..Len(roadmaps) :
        k < l => ~TsLess(roadmaps[k].createdAt, roadmaps[l].createdAt)

\* no entry was created in an earlier second than an entry that follows it
SecondsDescending(roadmaps) ==
    \A k \in 1..Len(roadmaps), l \in 1..Len(roadmaps) :
        k < l => roadmaps[k].createdAt.seconds >= roadmaps[l].createdAt.seconds

ProgressUpdateStep == applyLog' # applyLog
StatusUpdateStep == store # Null /\ store' # store /\ applyLog' = applyLog

\* the fields in which two documents differ
FieldsChanged(a, b) ==
    { f \in DOMAIN a \cup DOMAIN b :
        f \notin DOMAIN a \/ f \notin DOMAIN b \/ a[f] # b[f] }

\* C18: a progress update changes no field but phases, progress and
\* updatedAt, a status update none but status and updatedAt, both set
\* updatedAt to the server's time, and the userId and createdAt of a stored
\* roadmap are at all times the ones written at creation.
C18_UpdatesKeepOtherFields ==
    [][/\ ProgressUpdateStep =>
            /\ FieldsChanged(Val(store), Val(store')) \subseteq {"phases", "progress", "updatedAt"}
            /\ Val(store').updatedAt = clock'
       /\ StatusUpdateStep =>
            /\ FieldsChanged(Val(store), Val(store')) \subseteq {"status", "updatedAt"}
            /\ Val(store').updatedAt = clock'
       /\ store # Null =>
            /\ Val(store').userId = Val(store).userId
            /\ Val(store').createdAt = Val(store).createdAt
            /\ Val(store).userId = UserId
            /\ Val(store).createdAt = NextSecond(Timestamp(0, 0))]_vars

\* C18 witness: a roadmap created in second 1 whose status and checklist
\* were both updated later; it has the owner and the creation time it was
\* created with.
C18_Witness ==
    /\ store # Null
    /\ Val(store).status = "completed"
    /\ Len(applyLog) >= 1
    /\ Val(store).progress > 0
    /\ Val(store).updatedAt.seconds >= 3
    /\ Val(store).createdAt.seconds = 1
    /\ Val(store).userId = UserId

\* C19: every document created by saveRoadmap(userId, roadmapData) has
\* status 'active', createdAt and updatedAt assigned by the server and
\* userId equal to the userId argument, whatever fields roadmapData has; the
\* call returns the id of the new document.
C19_CreatedDocOwnedByCaller ==
    [][\A userId \in Users, roadmapData \in SaveInputs, id \in DocIds, now \in AllTimes :
          SaveRoadmapCall(userId, roadmapData, id, now, TRUE) =>
              /\ collection'[id].status = "active"
              /\ collection'[id].createdAt = now
              /\ collection'[id].updatedAt = now
              /\ collection'[id].userId = userId
              /\ lastSave' = Some([success |-> TRUE, roadmapId |-> id])]_vars

\* C20: after a store call of the list view has failed, the view shows an
\* error message and is not left in its loading state.
C20_StoreFailureShowsError ==
    (listMounted /\ lastQuery # Null /\ ~Val(lastQuery).success /\ pendingOps = {}) =>
        (ListErrorShown /\ ~listLoading)

\* ------------------------------ fetchRoadmap over the documents of the store
\* a record with the one field f
Field(f, v) == [x \in {f} |-> v]

\* a checklist item that an earlier visit wrapped and the user completed
DoneItem(prefix) ==
    [isString |-> FALSE, id |-> <<prefix, 0, 1, 2>>, text |-> "objective",
     completed |-> "true", name |-> UNDEF]

\* the checklists a stored phase or resource may carry: none, bare strings,
\* a bare string after a wrapped item, an object without id
NormItemLists ==
    { <<>>, <<GenString("objective")>>, <<DoneItem("obj"), GenString("objective")>>,
      <<GenMilestoneObject("milestone")>> }

\* an optional array field: absent, or one of the lists
NormField(f) == { <<>> } \cup { Field(f, l) : l \in NormItemLists }

NormPhase(i, objs, mss) ==
    Merge(Merge([id |-> <<"gen", i, 0, 0>>, phase_number |-> i, title |-> <<"title", 0>>,
                 duration_weeks |-> 2, expanded |-> UNDEF], objs), mss)

NormResource(i, named, objs, mss) ==
    Merge(Merge([toolName |-> IF named THEN <<"tool", 0>> ELSE NoName,
                 phase_number |-> IF named THEN i ELSE 0,
                 duration_weeks |-> IF named THEN 2 ELSE 0], objs), mss)

\* the phases field of a stored document: absent, empty, one phase, or two
NormPhasesFields ==
    { <<>>, Field("phases", <<>>) }
    \cup { Field("phases", <<NormPhase(1, o, m)>>) :
             o \in NormField("learning_objectives"), m \in NormField("milestones") }
    \cup { Field("phases", <<NormPhase(1, o, <<>>), NormPhase(2, <<>>, m)>>) :
             o \in NormField("learning_objectives"), m \in NormField("milestones") }

\* the learningResources field of a stored document: absent, empty, one
\* entry, or a named entry followed by one without toolName and duration
NormResourcesFields ==
    { <<>>, Field("learningResources", <<>>) }
    \cup { Field("learningResources", <<NormResource(1, n, o, <<>>)>>) :
             n \in BOOLEAN, o \in NormField("learning_objectives") }
    \cup { Field("learningResources", <<NormResource(1, TRUE, o, <<>>),
                                        NormResource(2, FALSE, <<>>, m)>>) :
             o \in NormField("learning_objectives"), m \in NormField("milestones") }

\* documents of the roadmaps collection, whoever wrote them
NormDocs ==
    { Merge(Merge([userId |-> UserId, progress |-> 0, status |-> "active",
                   createdAt |-> Timestamp(1, 0), updatedAt |-> Timestamp(1, 0)], p), r) :
        p \in NormPhasesFields, r \in NormResourcesFields }

\* the detail view has just been mounted on a stored document
NormInit ==
    /\ wizardRoadmap = Null
    /\ currentRoadmapId = "null"
    /\ appError = "null"
    /\ view = "detail"
    /\ store \in { Some(d) : d \in NormDocs }
    /\ clock = Timestamp(1, 0)
    /\ mountNo = 1
    /\ fetchPending = TRUE
    /\ roadmap = Null
    /\ loading = TRUE
    /\ saving = FALSE
    /\ error = "null"
    /\ lastSaved = "null"
    /\ errorTimers = 0
    /\ writes = <<>>
    /\ applyLog = <<>>
    /\ CalcIdle
    /\ CallIdle
    /\ WizardInit
    /\ ListIdle
    /\ NormIdle
    /\ FlatIdle

\* fetchRoadmap's normalization run on the roadmap the view holds, as a
\* later visit runs it on phases the view has written back
NormalizeAgain ==
    /\ roadmap # Null
    /\ normAgain = Null
    /\ normAgain' = Some([raised |-> fetchRoadmapRaises(Val(roadmap)),
                          roadmap |-> NormalizeRoadmap(Val(roadmap), mountNo + 1)])
    /\ UNCHANGED <<store, clock, appVars, detailVars, netVars, calcVars, callVars, wizVars,
                   listVars, flatVars>>

NormNext ==
    \/ \E ok \in BOOLEAN : FetchRoadmapResponse(ok)
    \/ NormalizeAgain

SpecNorm == NormInit /\ [][NormNext]_vars

\* C21: once the read of fetchRoadmap has returned, the detail view has left
\* its loading state and shows the roadmap or an error, whichever optional
\* fields the stored document lacks.
C21_FetchLeavesLoading ==
    (Mounted /\ ~fetchPending) => (~loading /\ (roadmap # Null \/ error # "null"))

\* C22: the normalization of fetchRoadmap applied to its own output does not
\* raise and returns the same roadmap: no item is wrapped again, no id is
\* synthesized again.
C22_NormalizeIdempotent ==
    normAgain # Null =>
        /\ ~Val(normAgain).raised
        /\ Val(normAgain).roadmap = Val(roadmap)

\* C22 witness: the phases were synthesized and a bare string was wrapped by
\* the first normalization; the second one has run.
C22_Witness ==
    /\ normAgain # Null
    /\ SynthesizesPhases(Val(store))
    /\ Len(OrEmpty(Val(store).learningResources[1], "learning_objectives")) = 2
    /\ Val(store).learningResources[1].learning_objectives[2].isString
    /\ Val(roadmap).phases[1].learning_objectives[2].id = <<"obj", 1, 1, 2>>
    /\ Val(roadmap).phases[1].learning_objectives[1].id = <<"obj", 0, 1, 2>>

\* C23: for a stored roadmap without phases (absent or empty) and with a
\* non-empty learningResources, the view's roadmap has one phase per entry,
\* in order, titled with the entry's toolName or else "Phase n", lasting
\* the entry's duration_weeks or else 4, and only the first is expanded.
C23_PhasePerResource ==
    (roadmap # Null /\ SynthesizesPhases(Val(store))) =>
        LET resources == Val(store).learningResources
            phases == Val(roadmap).phases
        IN  /\ Len(phases) = Len(resources)
            /\ \A n \in 1..Len(resources) :
                 /\ phases[n].title = IF resources[n].toolName # NoName
                                      THEN resources[n].toolName ELSE <<"Phase", n>>
                 /\ phases[n].duration_weeks = IF resources[n].duration_weeks # 0
                                               THEN resources[n].duration_weeks ELSE 4
                 /\ Truthy(phases[n].expanded) <=> n = 1

\* C23 witness: the stored document has no phases field and two resources,
\* the second without toolName and duration; the view shows two phases.
C23_Witness ==
    /\ roadmap # Null
    /\ "phases" \notin DOMAIN Val(store)
    /\ Len(Val(store).learningResources) = 2
    /\ Len(Val(roadmap).phases) = 2
    /\ Val(roadmap).phases[1].title = <<"tool", 0>>
    /\ Val(roadmap).phases[2].title = <<"Phase", 2>>
    /\ Val(roadmap).phases[2].duration_weeks = 4
    /\ Val(roadmap).phases[2].expanded = "false"

\* ------------------------------------------------ the flat-tool detail view
MaxFlatTools == 3
MaxFlatWrites == 2
MaxFlatMounts == 2

FlatToolName(k) == <<"tool", k>>

\* a roadmap document as handleSaveRoadmap writes its flat-tool fields:
\* selectedTools, no completed tool, currentTool the first selected tool
FlatDocs ==
    { [selectedTools |-> [k \in 1..n |-> [name |-> FlatToolName(k)]],
       completedTools |-> <<>>,
       progress |-> RoadmapToSaveProgress,
       currentTool |-> FlatToolName(1)] : n \in MinSelectedTools..MaxFlatTools }

FlatInit ==
    /\ AppInit
    /\ CalcIdle
    /\ CallIdle
    /\ WizardInit
    /\ ListIdle
    /\ NormIdle
    /\ flatDoc \in { Some(d) : d \in FlatDocs }
    /\ flatMounted = FALSE
    /\ flatMount = 0
    /\ flatFetching = FALSE
    /\ flatRoadmap = Null
    /\ flatLoading = TRUE
    /\ flatItems = <<>>
    /\ flatUpdating = FALSE
    /\ flatError = "null"
    /\ flatWrites = <<>>

notFlatVars == <<store, appVars, detailVars, netVars, calcVars, callVars, wizVars, listVars,
                normVars>>

\* App.handleViewRoadmapDetail: a RoadmapDetail instance is mounted with its
\* useState defaults and calls fetchRoadmapDetail
FlatOpen ==
    /\ ~flatMounted
    /\ flatMount < MaxFlatMounts
    /\ flatMounted' = TRUE
    /\ flatMount' = flatMount + 1
    /\ flatFetching' = TRUE
    /\ flatRoadmap' = Null
    /\ flatLoading' = TRUE
    /\ flatItems' = <<>>
    /\ flatUpdating' = FALSE
    /\ flatError' = "null"
    /\ UNCHANGED <<flatDoc, flatWrites, clock>>
    /\ UNCHANGED notFlatVars

\* fetchRoadmapDetail after `await getRoadmapById`
FlatFetchResponse(ok) ==
    /\ flatMounted
    /\ flatFetching
    /\ flatFetching' = FALSE
    /\ IF ok
       THEN /\ flatRoadmap' = flatDoc
            /\ flatItems' = Val(flatDoc).completedTools
            /\ UNCHANGED flatError
       ELSE /\ flatError' = "Failed to load roadmap"
            /\ UNCHANGED <<flatRoadmap, flatItems>>
    /\ flatLoading' = FALSE
    /\ UNCHANGED <<flatDoc, flatMounted, flatMount, flatUpdating, flatWrites, clock>>
    /\ UNCHANGED notFlatVars

\* the header's Back to List: the instance is unmounted; calls it has in
\* flight go on, their responses no longer reach a mounted instance
FlatBack ==
    /\ flatMounted
    /\ flatMounted' = FALSE
    /\ flatFetching' = FALSE
    /\ UNCHANGED <<flatDoc, flatMount, flatRoadmap, flatLoading, flatItems, flatUpdating,
                   flatError, flatWrites, clock>>
    /\ UNCHANGED notFlatVars

\* the checkbox of tool k is rendered and not disabled
FlatCheckboxEnabled(k) ==
    /\ flatMounted
    /\ ~flatLoading
    /\ flatRoadmap # Null
    /\ k \in 1..Len(Val(flatRoadmap).selectedTools)
    /\ ~flatUpdating

\* handleToggleComplete up to `await updateRoadmapProgress`
FlatToggle(k) ==
    /\ FlatCheckboxEnabled(k)
    /\ Len(flatWrites) < MaxFlatWrites
    /\ flatUpdating' = TRUE
    /\ flatWrites' = Append(flatWrites,
          [data |-> handleToggleCompleteData(flatItems, Val(flatRoadmap).selectedTools,
                                             Val(flatRoadmap).selectedTools[k].name),
           mount |-> flatMount,
           settled |-> FALSE])
    /\ UNCHANGED <<flatDoc, flatMounted, flatMount, flatFetching, flatRoadmap, flatLoading,
                   flatItems, flatError, clock>>
    /\ UNCHANGED notFlatVars

\* the instance that issued write w is still the mounted one
FlatLive(w) == flatMounted /\ flatWrites[w].mount = flatMount

\* handleToggleComplete after the await; the store applied the write (ok)
\* or the call failed
FlatWriteResponse(w, ok) ==
    /\ w \in 1..Len(flatWrites)
    /\ ~flatWrites[w].settled
    /\ flatWrites' = [flatWrites EXCEPT ![w].settled = TRUE]
    /\ IF ok
       THEN /\ clock' = NextSecond(clock)
            /\ flatDoc' = Some(updateRoadmapProgress(Val(flatDoc), flatWrites[w].data, clock'))
       ELSE UNCHANGED <<flatDoc, clock>>
    /\ IF FlatLive(w)
       THEN /\ flatUpdating' = FALSE
            /\ IF ok
               THEN /\ flatItems' = flatWrites[w].data.completedTools
                    /\ flatRoadmap' = Some(Merge(Val(flatRoadmap),
                          [completedTools |-> flatWrites[w].data.completedTools,
                           progress |-> flatWrites[w].data.progress]))
                    /\ UNCHANGED flatError
               ELSE /\ flatError' = "Failed to update progress"
                    /\ UNCHANGED <<flatItems, flatRoadmap>>
       ELSE UNCHANGED <<flatUpdating, flatItems, flatRoadmap, flatError>>
    /\ UNCHANGED <<flatMounted, flatMount, flatFetching, flatLoading>>
    /\ UNCHANGED notFlatVars

FlatNext ==
    \/ FlatOpen
    \/ \E ok \in BOOLEAN : FlatFetchResponse(ok)
    \/ FlatBack
    \/ \E k \in 1..MaxFlatTools : FlatToggle(k)
    \/ \E w \in 1..MaxFlatWrites, ok \in BOOLEAN : FlatWriteResponse(w, ok)

SpecFlat == FlatInit /\ [][FlatNext]_vars

\* the names of selectedTools that are not in completed, in selection order
Incomplete(tools, completed) ==
    SelectSeq([k \in 1..Len(tools) |-> tools[k].name],
              LAMBDA n : \A c \in 1..Len(completed) : completed[c] # n)

FirstIncomplete(tools, completed) ==
    IF Incomplete(tools, completed) = <<>> THEN "null"
    ELSE Head(Incomplete(tools, completed))

\* C24: the currentTool stored with a flat-tool roadmap is the first tool of
\* selectedTools, in selection order, that is not among its completedTools,
\* or none when every tool is completed.
C24_CurrentToolIsFirstIncomplete ==
    flatDoc # Null =>
        Val(flatDoc).currentTool =
            FirstIncomplete(Val(flatDoc).selectedTools, Val(flatDoc).completedTools)

\* the writes of the flat-tool view that are in flight
FlatInFlight == { w \in 1..Len(flatWrites) : ~flatWrites[w].settled }

\* C29: while a progress write of the flat-tool view is in flight it is the
\* only one and no tool checkbox can be toggled.
C29_OneWriteAndTogglesDisabled ==
    FlatInFlight # {} =>
        /\ Cardinality(FlatInFlight) = 1
        /\ \A k \in 1..MaxFlatTools : ~FlatCheckboxEnabled(k)

\* C25: no roadmap document in the store has a phase with an expanded
\* field, and no write of the detail view carries one.
C25_ExpandedNeverStored ==
    /\ store # Null =>
         \A i \in 1..Len(Val(store).phases) : Val(store).phases[i].expanded = UNDEF
    /\ \A k \in 1..Len(writes) :
         \A i \in 1..Len(writes[k].payload.phases) :
            writes[k].payload.phases[i].expanded = UNDEF

\* C26: step never moves from 1 directly to 4: a generation response that
\* arrives after Start Over or logout has reset the wizard leaves step at
\* 1 and the roadmap null.
C26_NoJumpFromStep1To4 ==
    [][step = 1 => (step' # 4 /\ (wizardRoadmap = Null => wizardRoadmap' = Null))]_vars

\* the saveRoadmap calls that created a document
SavedCalls == { k \in 1..Len(saveCalls) : saveCalls[k].status = "saved" }

\* C27: whenever currentRoadmapId is set, the roadmap the wizard holds is
\* the one that was saved under it, and no generated roadmap has been
\* created in the store twice.
C27_SavedIdIsOfHeldRoadmap ==
    /\ currentRoadmapId # "null" =>
          /\ wizardRoadmap # Null
          /\ savedGen = roadmapGen
          /\ store # Null
          /\ Val(store).phases = roadmapToSave(Val(wizardRoadmap)).phases
          /\ Val(store).learningResources = roadmapToSave(Val(wizardRoadmap)).learningResources
    /\ \A k \in SavedCalls, l \in SavedCalls : saveCalls[k].gen = saveCalls[l].gen => k = l

\* C28: at most one generateRoadmap request is in flight, and
\* generatingRoadmap is true exactly while one is.
C28_OneGenerationInFlight ==
    /\ genInFlight \in {0, 1}
    /\ generatingRoadmap <=> genInFlight = 1

\* C28 witness: a second request is in flight after the first one failed
\* and the flag had gone back to false.
C28_Witness ==
    /\ genCount = 2
    /\ genInFlight = 1
    /\ generatingRoadmap
    /\ wizardRoadmap = Null
    /\ step = 3

\* a step in which App state is reset by a completed sign-out
LogoutTakesEffect == user # "null" /\ user' = "null"

\* C30: the user is signed out only by a signOut call that followed a
\* confirmed prompt.  When signOut succeeds step, profile, selected tools,
\* preferences, roadmap, error and saved-roadmap id are reset and the view
\* is the generator; when the prompt is declined nothing changes; when
\* signOut fails only the error changes.
C30_LogoutOnlyAfterConfirm ==
    [][/\ LogoutTakesEffect => \E k \in 1..Len(signOutCalls) : signOutCalls[k] = "inflight"
       /\ Len(signOutCalls') > Len(signOutCalls) => logoutConfirm' = Some(TRUE)
       /\ \A k \in 1..MaxLogouts :
            HandleLogoutResponse(k, TRUE) =>
                /\ step' = 1
                /\ profile' = "null"
                /\ selectedTools' = <<>>
                /\ preferences' = "empty"
                /\ wizardRoadmap' = Null
                /\ appError' = "null"
                /\ currentRoadmapId' = "null"
                /\ view' = "generator"
       /\ HandleLogout(FALSE) =>
            UNCHANGED <<step, resumeData, profile, selectedTools, preferences,
                        generatingRoadmap, appVars, user, signOutCalls, store>>
       /\ \A k \in 1..MaxLogouts :
            HandleLogoutResponse(k, FALSE) =>
                /\ appError' = "Failed to logout. Please try again."
                /\ UNCHANGED <<step, resumeData, profile, selectedTools, preferences,
                               wizardRoadmap, currentRoadmapId, view, user>>]_vars

\* C30 witness: a roadmap was generated and saved from the list view's
\* neighbour, the generator; a confirmed logout has signed the user out and
\* the wizard is back at step 1 with roadmap and saved id cleared.
C30_Witness ==
    /\ user = "null"
    /\ signOutCalls = <<"done">>
    /\ logoutConfirm = Some(TRUE)
    /\ SavedCalls # {}
    /\ store # Null
    /\ step = 1
    /\ wizardRoadmap = Null
    /\ currentRoadmapId = "null"
    /\ view = "generator"

====
